---- MODULE Spec2Model ----
(***************************************************************************)
(* Model of the two engines of map-routing-app.  The grid search engine:   *)
(* the A* search findPath, its indexed binary heap (BinaryHeap) and the    *)
(* terrain cost table it reads.  The terrain generation engine:            *)
(* generateTerrainData, which normalizes a field of noise samples          *)
(* (generateMap) and classifies every cell (getTerrainType, the filtered   *)
(* classifier and checkNearWater).                                         *)
(*                                                                         *)
(* Numbers.  The code computes with floating point values of the form      *)
(*     k * 1 + m * 1.414 + sqrt(n)      (k, m, n naturals).                *)
(* A value is modelled exactly as a record [q |-> a, r |-> n, ...] that    *)
(* stands for a/500 + sqrt(n): q is the rational part in units of 0.002    *)
(* (1 is 500, 1.414 is 707), r the radicand of the Euclidean heuristic.    *)
(* Sums and comparisons are exact (RealLess decides                        *)
(* a/500 + sqrt(n) < b/500 + sqrt(m) by squaring); the rounding of the     *)
(* last bits of a double is not modelled.                                  *)
(*                                                                         *)
(* Elevations.  A noise sample is an integer number of units; a            *)
(* normalized elevation (v - min) / (max - min) is the exact fraction      *)
(* [n |-> v - min, d |-> max - min], and 0/0 is NaN.  Boundaries are       *)
(* hundredths.  Comparisons cross-multiply, and every comparison with      *)
(* NaN is false, as in the code.                                           *)
(***************************************************************************)
EXTENDS Integers, Sequences, FiniteSets, TLC

VARIABLES terrainMap, startX, startY, endX, endY,
          pc, openSet, closedSet, gScore, fScore, result, calls, previous,
          config, noise, noiseMap, terrainVisibility, generated, earlier,
          lastOp, pins, heldPath, isCalculating, timers, pendingEffect, window

vars == <<terrainMap, startX, startY, endX, endY,
          pc, openSet, closedSet, gScore, fScore, result, calls, previous,
          config, noise, noiseMap, terrainVisibility, generated, earlier,
          lastOp, pins, heldPath, isCalculating, timers, pendingEffect, window>>

\* the state of the MapCanvas component, apart from the terrain it holds:
\* pins, path (heldPath) and isCalculating, the callbacks handed to setTimeout
\* that have not run yet, whether the path effect is still to run after a
\* render, and the size of the browser window
canvas == <<pins, heldPath, isCalculating, timers, pendingEffect, window>>

\* the state of the terrain generation engine, apart from the grid it produces
generation == <<config, noise, noiseMap, terrainVisibility, generated, earlier>>

\* the state of a search, apart from its input
search == <<pc, openSet, closedSet, gScore, fScore, result, calls, previous>>

input == <<terrainMap, startX, startY, endX, endY>>

----------------------------------------------------------------------------
(* Bounds of the model *)

\* largest width, height and number of cells (width * height) of a grid
\* with free contents
MaxW == 3
MaxH == 3
MaxCells == 6
\* largest width and height of the single-category (uniform) grids
MaxUniformW == 4
MaxUniformH == 5
\* largest number of cells of a grid searched with out-of-bounds endpoints
MaxEdgeCells == 4
\* number of findPath calls made on the same input
MaxCalls == 2
\* the corridor grids: length of the diagonal corridor, and largest number of
\* hills cells in the straight corridor
CorridorLen == 31
CorridorHills == 11
\* largest width, height and number of cells of a generated field
MaxGenW == 3
MaxGenH == 2
MaxGenCells == 4
\* largest width of the one-row fields generated twice
MaxRowW == 3
\* largest number of cells of a grid over all the labels
MaxLabelCells == 3
\* number of coordinates, and largest f (in whole units), of the nodes pushed
\* on a heap used on its own
MaxHeapKeys == 4
MaxHeapF == 2
\* number of user events (click, regenerate, resize, visibility change) on a
\* canvas, and number of lowest samples in a noise field generated for it
MaxEvents == 3
MaxLowCells == 1

----------------------------------------------------------------------------
(* Exact arithmetic on values q/500 + sqrt(r) *)

\* floor of the square root of n, by Newton's iteration from x >= sqrt(n)
RECURSIVE IsqrtFrom(_, _)
IsqrtFrom(n, x) ==
  LET y == (x + n \div x) \div 2
  IN  IF y >= x THEN x ELSE IsqrtFrom(n, y)

Isqrt(n) == IF n = 0 THEN 0 ELSE IsqrtFrom(n, 46340)

\* the value q/500 + sqrt(r); s caches floor(500 * sqrt(r))
Real(q, r) == [q |-> q, r |-> r, s |-> Isqrt(250000 * r)]

\* a + b, where at most one of the two carries a square root
RealAdd(a, b) == [q |-> a.q + b.q, r |-> a.r + b.r, s |-> a.s + b.s]

\* the digits in base 10^4 of the number with coefficients c (c[1] the
\* lowest), from position i on
RECURSIVE Digits(_, _, _)
Digits(c, i, carry) ==
  IF i > Len(c) THEN <<carry>>
  ELSE <<(c[i] + carry) % 10000>> \o Digits(c, i + 1, (c[i] + carry) \div 10000)

\* u < v for two digit sequences of the same length, decided from position i down
RECURSIVE DigitsLess(_, _, _)
DigitsLess(u, v, i) ==
  IF i = 0 THEN FALSE
  ELSE IF u[i] # v[i] THEN u[i] < v[i]
  ELSE DigitsLess(u, v, i - 1)

\* the digits of t * t (0 <= t < 2^31)
SquareDigits(t) ==
  LET t0 == t % 10000
      t1 == (t \div 10000) % 10000
      t2 == t \div 100000000
  IN  Digits(<<t0 * t0, 2 * t0 * t1, 2 * t0 * t2 + t1 * t1, 2 * t1 * t2, t2 * t2, 0>>, 1, 0)

\* the digits of 500000^2 * p
ScaledDigits(p) ==
  Digits(<<0, 0, 2500 * (p % 10000), 2500 * (p \div 10000), 0, 0>>, 1, 0)

\* t < 500000 * sqrt(p)    (t >= 0)
BelowRoot(t, p) == DigitsLess(SquareDigits(t), ScaledDigits(p), 7)

\* t > 500000 * sqrt(p)    (t >= 0)
AboveRoot(t, p) == DigitsLess(ScaledDigits(p), SquareDigits(t), 7)

\* a < b on the represented values: a.q + 500 sqrt(a.r) < b.q + 500 sqrt(b.r).
\* 500 (sqrt(a.r) - sqrt(b.r)) lies strictly within 1 of a.s - b.s; when that
\* does not decide the comparison, d = a.s - b.s and both sides are squared.
RealLess(a, b) ==
  LET d == b.q - a.q
      t == 250000 * (a.r + b.r) - d * d
  IN  IF a.r = b.r THEN d > 0
      ELSE IF d > a.s - b.s THEN TRUE
      ELSE IF d < a.s - b.s THEN FALSE
      ELSE IF a.r < b.r
      THEN \* 500 (sqrt(b.r) - sqrt(a.r)) > -d >= 0
           d = 0 \/ (t > 0 /\ AboveRoot(t, a.r * b.r))
      ELSE \* 500 (sqrt(a.r) - sqrt(b.r)) < d, d >= 0
           d > 0 /\ (t < 0 \/ BelowRoot(t, a.r * b.r))

----------------------------------------------------------------------------
(* Cost model (terrainConstants.ts) *)

\* the cost of an impassable category: larger than any cost a search can sum
Infinity == 1000000

\* the category names of TERRAIN_DEFINITIONS
TerrainNames == {"water", "sand", "land", "hills", "mountain", "snow"}

\* (variant: water carries a large finite cost instead of Infinity)
DefinitionCostFiniteWater(t) ==
  CASE t = "water"    -> 99
    [] t = "sand"     -> 3
    [] t = "land"     -> 1
    [] t = "hills"    -> 2
    [] t = "mountain" -> 4
    [] t = "snow"     -> 5

\* (variant: sand is free to enter)
DefinitionCostFreeSand(t) ==
  CASE t = "water"    -> Infinity
    [] t = "sand"     -> 0
    [] t = "land"     -> 1
    [] t = "hills"    -> 2
    [] t = "mountain" -> 4
    [] t = "snow"     -> 5

\* (variant: the costs of hills and mountain exchanged)
DefinitionCostSwapped(t) ==
  CASE t = "water"    -> Infinity
    [] t = "sand"     -> 3
    [] t = "land"     -> 1
    [] t = "hills"    -> 4
    [] t = "mountain" -> 2
    [] t = "snow"     -> 5

\* TERRAIN_DEFINITIONS[t].cost
DefinitionCost(t) ==
  CASE t = "water"    -> Infinity
    [] t = "sand"     -> 3
    [] t = "land"     -> 1
    [] t = "hills"    -> 2
    [] t = "mountain" -> 4
    [] t = "snow"     -> 5

\* (variant: a label without a definition is impassable)
getTerrainCostStrict(terrain) ==
  IF terrain \in TerrainNames THEN DefinitionCost(terrain) ELSE Infinity

\* TERRAIN_DEFINITIONS[terrain]?.cost ?? 1
getTerrainCost(terrain) ==
  IF terrain \in TerrainNames THEN DefinitionCost(terrain) ELSE 1

----------------------------------------------------------------------------
(* Search nodes and their keys *)

Digit(d) ==
  CASE d = 0 -> "0" [] d = 1 -> "1" [] d = 2 -> "2" [] d = 3 -> "3"
    [] d = 4 -> "4" [] d = 5 -> "5" [] d = 6 -> "6" [] d = 7 -> "7"
    [] d = 8 -> "8" [] d = 9 -> "9"

\* the decimal text of an integer, as a template literal prints it
RECURSIVE NumberText(_)
NumberText(n) ==
  IF n < 0 THEN "-" \o NumberText(-n)
  ELSE IF n < 10 THEN Digit(n)
  ELSE NumberText(n \div 10) \o Digit(n % 10)

\* `${x},${y}`
CoordKey(x, y) == NumberText(x) \o "," \o NumberText(y)

\* BinaryHeap.getKey
getKey(node) == CoordKey(node.x, node.y)

\* a Node without parent carries NoParent; a parent is held as <<parent>>
NoParent == <<>>

MakeNode(x, y, g, h, f, parent) ==
  [x |-> x, y |-> y, g |-> g, h |-> h, f |-> f, parent |-> parent]

Zero == Real(0, 0)

\* Map.set
MapSet(m, k, v) == [z \in DOMAIN m \cup {k} |-> IF z = k THEN v ELSE m[z]]

\* Map.delete
MapDelete(m, k) == [z \in DOMAIN m \ {k} |-> m[z]]

EmptyMap == [z \in {} |-> 0]

----------------------------------------------------------------------------
(* BinaryHeap: heap is the array (index i of the code is heap[i + 1]),      *)
(* nodeMap maps a key to an array index of the code                        *)

EmptyHeap == [heap |-> <<>>, nodeMap |-> EmptyMap]

\* (variant: swap exchanges the entries and leaves the lookup as it was)
swapKeepIndex(H, i, j) ==
  [H EXCEPT !.heap = [H.heap EXCEPT ![i + 1] = H.heap[j + 1],
                                    ![j + 1] = H.heap[i + 1]]]

\* BinaryHeap.swap
swap(H, i, j) ==
  LET heap1 == [H.heap EXCEPT ![i + 1] = H.heap[j + 1], ![j + 1] = H.heap[i + 1]]
      map1  == MapSet(H.nodeMap, getKey(heap1[i + 1]), i)
      map2  == MapSet(map1, getKey(heap1[j + 1]), j)
  IN  [heap |-> heap1, nodeMap |-> map2]

\* BinaryHeap.heapifyUp
RECURSIVE heapifyUp(_, _)
heapifyUp(H, index) ==
  IF index > 0
  THEN LET parentIndex == (index - 1) \div 2
       IN  IF ~RealLess(H.heap[index + 1].f, H.heap[parentIndex + 1].f)
           THEN H
           ELSE heapifyUp(swap(H, index, parentIndex), parentIndex)
  ELSE H

\* BinaryHeap.heapifyDown
RECURSIVE heapifyDown(_, _)
heapifyDown(H, index) ==
  LET left  == 2 * index + 1
      right == 2 * index + 2
      s1 == IF left < Len(H.heap) /\ RealLess(H.heap[left + 1].f, H.heap[index + 1].f)
            THEN left ELSE index
      smallest == IF right < Len(H.heap) /\ RealLess(H.heap[right + 1].f, H.heap[s1 + 1].f)
                  THEN right ELSE s1
  IN  IF smallest = index THEN H
      ELSE heapifyDown(swap(H, index, smallest), smallest)

\* (variant: an entry updated in place only ever moves up)
pushUpOnly(H, node) ==
  LET key == getKey(node)
  IN  IF key \in DOMAIN H.nodeMap
      THEN LET index == H.nodeMap[key]
               H1    == [H EXCEPT !.heap[index + 1] = node]
           IN  heapifyUp(H1, index)
      ELSE LET H1 == [heap    |-> Append(H.heap, node),
                      nodeMap |-> MapSet(H.nodeMap, key, Len(H.heap))]
           IN  heapifyUp(H1, Len(H1.heap) - 1)

\* (variant: push always appends, so a held coordinate gets a second entry)
pushAlwaysAppends(H, node) ==
  LET H1 == [heap    |-> Append(H.heap, node),
             nodeMap |-> MapSet(H.nodeMap, getKey(node), Len(H.heap))]
  IN  heapifyUp(H1, Len(H1.heap) - 1)

\* BinaryHeap.push
push(H, node) ==
  LET key == getKey(node)
  IN  IF key \in DOMAIN H.nodeMap
      THEN LET index == H.nodeMap[key]
               oldF  == H.heap[index + 1].f
               H1    == [H EXCEPT !.heap[index + 1] = node]
           IN  IF RealLess(node.f, oldF) THEN heapifyUp(H1, index)
               ELSE IF RealLess(oldF, node.f) THEN heapifyDown(H1, index)
               ELSE H1
      ELSE LET H1 == [heap    |-> Append(H.heap, node),
                      nodeMap |-> MapSet(H.nodeMap, key, Len(H.heap))]
           IN  heapifyUp(H1, Len(H1.heap) - 1)

\* (variant: pop returns the root and leaves it in the heap)
popHeapKeep(H) == H

\* BinaryHeap.pop on a non-empty heap: the heap it leaves
popHeap(H) ==
  IF Len(H.heap) = 1
  THEN [heap |-> <<>>, nodeMap |-> EmptyMap]
  ELSE LET root  == H.heap[1]
           last  == H.heap[Len(H.heap)]
           heap1 == [SubSeq(H.heap, 1, Len(H.heap) - 1) EXCEPT ![1] = last]
           map1  == MapDelete(H.nodeMap, getKey(root))
           map2  == MapSet(map1, getKey(heap1[1]), 0)
       IN  heapifyDown([heap |-> heap1, nodeMap |-> map2], 0)

\* BinaryHeap.pop on a non-empty heap: the node it returns
popNode(H) == H.heap[1]

\* BinaryHeap.isEmpty
isEmpty(H) == Len(H.heap) = 0

----------------------------------------------------------------------------
(* The search (findPath) *)

Abs(n) == IF n < 0 THEN -n ELSE n

\* getHeuristic: Math.sqrt(dx * dx + dy * dy)
getHeuristic(a, b) ==
  LET dx == Abs(a.x - b.x)
      dy == Abs(a.y - b.y)
  IN  Real(0, dx * dx + dy * dy)

\* (variant: the four orthogonal directions only)
DIRECTIONSOrthogonal ==
  << <<-1, 0>>, <<0, -1>>, <<0, 1>>, <<1, 0>> >>

DIRECTIONS ==
  << <<-1, -1>>, <<-1, 0>>, <<-1, 1>>,
     <<0, -1>>,             <<0, 1>>,
     <<1, -1>>,  <<1, 0>>,  <<1, 1>> >>

\* terrainMap[y][x] of the code
Cell(map, x, y) == map[y + 1][x + 1]

\* (variant: the bounds check rejects the last column and the last row)
RECURSIVE neighborsFromShortBounds(_, _, _, _, _)
neighborsFromShortBounds(node, map, width, height, i) ==
  IF i > Len(DIRECTIONS) THEN <<>>
  ELSE LET nx   == node.x + DIRECTIONS[i][1]
           ny   == node.y + DIRECTIONS[i][2]
           rest == neighborsFromShortBounds(node, map, width, height, i + 1)
       IN  IF nx < 0 \/ ny < 0 \/ nx >= width - 1 \/ ny >= height - 1 THEN rest
           ELSE IF getTerrainCost(Cell(map, nx, ny)) = Infinity THEN rest
           ELSE <<MakeNode(nx, ny, Zero, Zero, Zero, <<node>>)>> \o rest

\* (variant: a diagonal step is dropped when both cells orthogonally adjacent
\* to its two ends are impassable)
RECURSIVE neighborsFromNoCornerCut(_, _, _, _, _)
neighborsFromNoCornerCut(node, map, width, height, i) ==
  IF i > Len(DIRECTIONS) THEN <<>>
  ELSE LET nx   == node.x + DIRECTIONS[i][1]
           ny   == node.y + DIRECTIONS[i][2]
           rest == neighborsFromNoCornerCut(node, map, width, height, i + 1)
       IN  IF nx < 0 \/ ny < 0 \/ nx >= width \/ ny >= height THEN rest
           ELSE IF getTerrainCost(Cell(map, nx, ny)) = Infinity THEN rest
           ELSE IF /\ nx # node.x /\ ny # node.y
                   /\ getTerrainCost(Cell(map, nx, node.y)) = Infinity
                   /\ getTerrainCost(Cell(map, node.x, ny)) = Infinity
           THEN rest
           ELSE <<MakeNode(nx, ny, Zero, Zero, Zero, <<node>>)>> \o rest

\* getNeighbors: the neighbours of node found by directions i .. 8
RECURSIVE neighborsFrom(_, _, _, _, _)
neighborsFrom(node, map, width, height, i) ==
  IF i > Len(DIRECTIONS) THEN <<>>
  ELSE LET nx   == node.x + DIRECTIONS[i][1]
           ny   == node.y + DIRECTIONS[i][2]
           rest == neighborsFrom(node, map, width, height, i + 1)
       IN  IF nx < 0 \/ ny < 0 \/ nx >= width \/ ny >= height THEN rest
           ELSE IF getTerrainCost(Cell(map, nx, ny)) = Infinity THEN rest
           ELSE <<MakeNode(nx, ny, Zero, Zero, Zero, <<node>>)>> \o rest

getNeighbors(node, map, width, height) == neighborsFrom(node, map, width, height, 1)

\* the PathResult of the failing returns (computationTime, a diagnostic
\* measurement, is left out of every result)
FailedResult == [path |-> <<>>, distance |-> Zero, success |-> FALSE]

NoResult == [path |-> <<>>, distance |-> Zero, success |-> FALSE, none |-> TRUE]

\* (variant: a diagonal move is charged like a straight one)
movementCostFlat(map, current, neighbor) ==
  Real(getTerrainCost(Cell(map, neighbor.x, neighbor.y)) * 500, 0)

\* the cost of moving from current into neighbor
movementCost(map, current, neighbor) ==
  LET terrainCost == getTerrainCost(Cell(map, neighbor.x, neighbor.y))
      isDiagonal  == Abs(neighbor.x - current.x) = 1 /\ Abs(neighbor.y - current.y) = 1
  IN  IF isDiagonal THEN Real(terrainCost * 707, 0) ELSE Real(terrainCost * 500, 0)

\* gScore.get(key) || 0
ScoreOrZero(scores, key) ==
  IF key \in DOMAIN scores THEN scores[key] ELSE Zero

\* gScore.get(key) || Infinity : a recorded 0 is falsy and reads as Infinity
ScoreOrInfinity(scores, key) ==
  IF key \in DOMAIN scores /\ scores[key] # Zero THEN scores[key] ELSE Real(Infinity, 0)

\* (variant: a closed neighbour is relaxed like any other)
relaxNeighborClosedToo(S, map, current, neighbor, end) ==
  LET currentKey  == CoordKey(current.x, current.y)
      neighborKey == CoordKey(neighbor.x, neighbor.y)
      newGScore   == RealAdd(ScoreOrZero(S.gScore, currentKey),
                             movementCost(map, current, neighbor))
      currentG    == ScoreOrInfinity(S.gScore, neighborKey)
      h           == getHeuristic(neighbor, end)
      f           == RealAdd(newGScore, h)
      neighborNode == MakeNode(neighbor.x, neighbor.y, newGScore, h, f, <<current>>)
  IN  IF RealLess(newGScore, currentG)
      THEN [S EXCEPT !.gScore  = MapSet(S.gScore, neighborKey, newGScore),
                     !.fScore  = MapSet(S.fScore, neighborKey, f),
                     !.openSet = push(S.openSet, neighborNode)]
      ELSE S

\* the body of the loop over one neighbour; S holds openSet, closedSet, gScore, fScore
relaxNeighbor(S, map, current, neighbor, end) ==
  LET currentKey  == CoordKey(current.x, current.y)
      neighborKey == CoordKey(neighbor.x, neighbor.y)
      newGScore   == RealAdd(ScoreOrZero(S.gScore, currentKey),
                             movementCost(map, current, neighbor))
      currentG    == ScoreOrInfinity(S.gScore, neighborKey)
      h           == getHeuristic(neighbor, end)
      f           == RealAdd(newGScore, h)
      neighborNode == MakeNode(neighbor.x, neighbor.y, newGScore, h, f, <<current>>)
  IN  IF neighborKey \in S.closedSet THEN S
      ELSE IF RealLess(newGScore, currentG)
      THEN [S EXCEPT !.gScore  = MapSet(S.gScore, neighborKey, newGScore),
                     !.fScore  = MapSet(S.fScore, neighborKey, f),
                     !.openSet = push(S.openSet, neighborNode)]
      ELSE S

\* for (const neighbor of neighbors), from the i-th neighbour on
RECURSIVE relaxAll(_, _, _, _, _, _)
relaxAll(S, map, current, neighbors, end, i) ==
  IF i > Len(neighbors) THEN S
  ELSE relaxAll(relaxNeighbor(S, map, current, neighbors[i], end),
                map, current, neighbors, end, i + 1)

\* while (node) { path.push(node); node = node.parent }
RECURSIVE parentChain(_)
parentChain(node) ==
  IF node.parent = NoParent THEN <<node>>
  ELSE <<node>> \o parentChain(node.parent[1])

\* Array.reverse
Reverse(s) == [i \in 1..Len(s) |-> s[Len(s) + 1 - i]]

\* (variant: the path is not reversed)
reconstructPathBackwards(current) == parentChain(current)

\* the path of a node popped at the goal
reconstructPath(current) == Reverse(parentChain(current))

\* the early validation of the endpoints against the map boundaries
outsideBounds(sx, sy, ex, ey, width, height) ==
  \/ sx < 0 \/ sy < 0 \/ sx >= width \/ sy >= height
  \/ ex < 0 \/ ey < 0 \/ ex >= width \/ ey >= height

\* (variant: only the goal's terrain is validated)
onImpassableGoalOnly(map, sx, sy, ex, ey) ==
  getTerrainCost(Cell(map, ex, ey)) = Infinity

\* the quick terrain validation of the endpoints
onImpassable(map, sx, sy, ex, ey) ==
  \/ getTerrainCost(Cell(map, sx, sy)) = Infinity
  \/ getTerrainCost(Cell(map, ex, ey)) = Infinity

\* (variant: the trivial result carries no node)
trivialResultEmpty(sx, sy) ==
  [path |-> <<>>, distance |-> Zero, success |-> TRUE]

\* the PathResult returned when start and end are the same
trivialResult(sx, sy) ==
  [path |-> <<MakeNode(sx, sy, Zero, Zero, Zero, NoParent)>>,
   distance |-> Zero, success |-> TRUE]

\* (variant: the closed set outlives the call)
newSearchStateSharedClosed(sx, sy, ex, ey) ==
  LET startH   == getHeuristic([x |-> sx, y |-> sy], [x |-> ex, y |-> ey])
      start    == MakeNode(sx, sy, Zero, startH, Zero, NoParent)
      startKey == CoordKey(sx, sy)
  IN  [openSet   |-> push(EmptyHeap, start),
       closedSet |-> closedSet,
       gScore    |-> MapSet(EmptyMap, startKey, Zero),
       fScore    |-> MapSet(EmptyMap, startKey, start.h)]

\* (variant: the score maps outlive the call)
newSearchStateSharedScores(sx, sy, ex, ey) ==
  LET startH   == getHeuristic([x |-> sx, y |-> sy], [x |-> ex, y |-> ey])
      start    == MakeNode(sx, sy, Zero, startH, Zero, NoParent)
      startKey == CoordKey(sx, sy)
  IN  [openSet   |-> push(EmptyHeap, start),
       closedSet |-> {},
       gScore    |-> MapSet(gScore, startKey, Zero),
       fScore    |-> MapSet(fScore, startKey, start.h)]

\* the data structures a call creates, the start node scored and pushed
newSearchState(sx, sy, ex, ey) ==
  LET startH   == getHeuristic([x |-> sx, y |-> sy], [x |-> ex, y |-> ey])
      start    == MakeNode(sx, sy, Zero, startH, Zero, NoParent)
      startKey == CoordKey(sx, sy)
  IN  [openSet   |-> push(EmptyHeap, start),
       closedSet |-> {},
       gScore    |-> MapSet(EmptyMap, startKey, Zero),
       fScore    |-> MapSet(EmptyMap, startKey, start.h)]

\* (variant: the start-equals-goal check comes first)
findPathEnterEqualFirst ==
  /\ pc = "idle"
  /\ UNCHANGED <<input, calls, previous, generation, lastOp, canvas>>
  /\ IF Len(terrainMap) = 0
     THEN /\ pc' = "threw"
          /\ UNCHANGED <<openSet, closedSet, gScore, fScore, result>>
     ELSE LET width  == Len(terrainMap[1])
              height == Len(terrainMap)
          IN  IF startX = endX /\ startY = endY
              THEN /\ pc' = "returned"
                   /\ result' = trivialResult(startX, startY)
                   /\ UNCHANGED <<openSet, closedSet, gScore, fScore>>
              ELSE IF outsideBounds(startX, startY, endX, endY, width, height)
              THEN /\ pc' = "returned"
                   /\ result' = FailedResult
                   /\ UNCHANGED <<openSet, closedSet, gScore, fScore>>
              ELSE IF onImpassable(terrainMap, startX, startY, endX, endY)
              THEN /\ pc' = "returned"
                   /\ result' = FailedResult
                   /\ UNCHANGED <<openSet, closedSet, gScore, fScore>>
              ELSE LET S == newSearchState(startX, startY, endX, endY)
                   IN  /\ pc' = "searching"
                       /\ openSet' = S.openSet
                       /\ closedSet' = S.closedSet
                       /\ gScore' = S.gScore
                       /\ fScore' = S.fScore
                       /\ UNCHANGED result

\* findPath from its entry to the first evaluation of the loop condition
findPathEnter ==
  /\ pc = "idle"
  /\ UNCHANGED <<input, calls, previous, generation, lastOp, canvas>>
  /\ IF Len(terrainMap) = 0
     THEN \* terrainMap[0] is undefined: reading its length throws a TypeError
          /\ pc' = "threw"
          /\ UNCHANGED <<openSet, closedSet, gScore, fScore, result>>
     ELSE LET width  == Len(terrainMap[1])
              height == Len(terrainMap)
          IN  IF outsideBounds(startX, startY, endX, endY, width, height)
              THEN /\ pc' = "returned"
                   /\ result' = FailedResult
                   /\ UNCHANGED <<openSet, closedSet, gScore, fScore>>
              ELSE IF onImpassable(terrainMap, startX, startY, endX, endY)
              THEN /\ pc' = "returned"
                   /\ result' = FailedResult
                   /\ UNCHANGED <<openSet, closedSet, gScore, fScore>>
              ELSE IF startX = endX /\ startY = endY
              THEN /\ pc' = "returned"
                   /\ result' = trivialResult(startX, startY)
                   /\ UNCHANGED <<openSet, closedSet, gScore, fScore>>
              ELSE LET S == newSearchState(startX, startY, endX, endY)
                   IN  /\ pc' = "searching"
                       /\ openSet' = S.openSet
                       /\ closedSet' = S.closedSet
                       /\ gScore' = S.gScore
                       /\ fScore' = S.fScore
                       /\ UNCHANGED result

\* one evaluation of the loop condition of findPath and of the body it guards
findPathLoop ==
  /\ pc = "searching"
  /\ UNCHANGED <<input, calls, previous, generation, lastOp, canvas>>
  /\ IF isEmpty(openSet)
     THEN /\ pc' = "returned"
          /\ result' = FailedResult
          /\ UNCHANGED <<openSet, closedSet, gScore, fScore>>
     ELSE LET current    == popNode(openSet)
              popped     == popHeap(openSet)
              currentKey == CoordKey(current.x, current.y)
              width      == Len(terrainMap[1])
              height     == Len(terrainMap)
              end        == MakeNode(endX, endY, Zero, Zero, Zero, NoParent)
          IN  IF currentKey \in closedSet
              THEN /\ openSet' = popped
                   /\ UNCHANGED <<pc, closedSet, gScore, fScore, result>>
              ELSE IF current.x = endX /\ current.y = endY
              THEN /\ pc' = "returned"
                   /\ result' = [path |-> reconstructPath(current),
                                 distance |-> current.g, success |-> TRUE]
                   /\ openSet' = popped
                   /\ closedSet' = closedSet \cup {currentKey}
                   /\ UNCHANGED <<gScore, fScore>>
              ELSE LET S0 == [openSet |-> popped, closedSet |-> closedSet \cup {currentKey},
                              gScore |-> gScore, fScore |-> fScore]
                       S1 == relaxAll(S0, terrainMap, current,
                                      getNeighbors(current, terrainMap, width, height), end, 1)
                   IN  /\ openSet' = S1.openSet
                       /\ closedSet' = S1.closedSet
                       /\ gScore' = S1.gScore
                       /\ fScore' = S1.fScore
                       /\ UNCHANGED <<pc, result>>

\* the caller calls findPath again with the same arguments on the same grid
CallAgain ==
  /\ pc = "returned"
  /\ calls < MaxCalls
  /\ calls' = calls + 1
  /\ previous' = result
  /\ pc' = "idle"
  /\ UNCHANGED <<input, openSet, closedSet, gScore, fScore, result, generation, lastOp, canvas>>

----------------------------------------------------------------------------
(* Terrain generation (noise.ts, mapGenerator.ts) *)

Max(a, b) == IF a >= b THEN a ELSE b
Min(a, b) == IF a <= b THEN a ELSE b

\* the fraction n/d; d = 0 only for NaN
Ratio(n, d) == [n |-> n, d |-> d]

\* 0/0
NaN == Ratio(0, 0)

IsNaN(a) == a.d = 0

\* a number written in hundredths, as the boundaries are
Hundredths(k) == Ratio(k, 100)

\* a < b on fractions; false when either side is NaN
RatioLess(a, b) == a.d # 0 /\ b.d # 0 /\ a.n * b.d < b.n * a.d

\* a <= b on fractions; false when either side is NaN
RatioLessEq(a, b) == a.d # 0 /\ b.d # 0 /\ a.n * b.d <= b.n * a.d

\* a = b as numbers; false when either side is NaN
RatioEq(a, b) == a.d # 0 /\ b.d # 0 /\ a.n * b.d = b.n * a.d

\* TERRAIN_BOUNDARIES, in hundredths
TERRAIN_BOUNDARIES ==
  [water |-> 40, sand |-> 45, land |-> 65, hills |-> 75, mountain |-> 85, snow |-> 95]

\* getTerrainOrder(): the categories from lowest to highest elevation
getTerrainOrder == <<"water", "sand", "land", "hills", "mountain", "snow">>

\* Math.min and Math.max folded over the values of the first pass
MathMin(S) == CHOOSE m \in S : \A n \in S : m <= n
MathMax(S) == CHOOSE m \in S : \A n \in S : m >= n

\* the values a field holds
FieldValues(map) == UNION {{map[y][x] : x \in DOMAIN map[y]} : y \in DOMAIN map}

\* first pass of generateMap: one sample of generateFractalNoise per cell,
\* height rows of width values (no row, or empty rows, when a dimension is
\* not positive)
firstPass(width, height, samples) ==
  [y \in 1..height |-> [x \in 1..width |-> samples[y][x]]]

\* generateMap: the first pass, then the min/max normalization of every cell
generateMap(width, height, samples) ==
  LET map      == firstPass(width, height, samples)
      minValue == MathMin(FieldValues(map))
      maxValue == MathMax(FieldValues(map))
  IN  [y \in 1..height |->
         [x \in 1..width |-> Ratio(map[y][x] - minValue, maxValue - minValue)]]

\* (variant: a value on a boundary stays in the lower category)
getTerrainTypeInclusive(val) ==
  IF RatioLessEq(val, Hundredths(TERRAIN_BOUNDARIES.water)) THEN "water"
  ELSE IF RatioLessEq(val, Hundredths(TERRAIN_BOUNDARIES.sand)) THEN "sand"
  ELSE IF RatioLessEq(val, Hundredths(TERRAIN_BOUNDARIES.land)) THEN "land"
  ELSE IF RatioLessEq(val, Hundredths(TERRAIN_BOUNDARIES.hills)) THEN "hills"
  ELSE IF RatioLessEq(val, Hundredths(TERRAIN_BOUNDARIES.mountain)) THEN "mountain"
  ELSE "snow"

\* getTerrainType
getTerrainType(val) ==
  IF RatioLess(val, Hundredths(TERRAIN_BOUNDARIES.water)) THEN "water"
  ELSE IF RatioLess(val, Hundredths(TERRAIN_BOUNDARIES.sand)) THEN "sand"
  ELSE IF RatioLess(val, Hundredths(TERRAIN_BOUNDARIES.land)) THEN "land"
  ELSE IF RatioLess(val, Hundredths(TERRAIN_BOUNDARIES.hills)) THEN "hills"
  ELSE IF RatioLess(val, Hundredths(TERRAIN_BOUNDARIES.mountain)) THEN "mountain"
  ELSE IF RatioLess(val, Hundredths(TERRAIN_BOUNDARIES.snow)) THEN "snow"
  ELSE "snow"

\* the keys of the visibility maps the application builds, in insertion order
VisibilityKeys == <<"water", "sand", "land", "hills", "mountain", "snow">>

\* a visibility argument: absent (filtered = FALSE), or a map from the
\* category names to booleans, whose keys come in the order the application
\* inserts them
Visibility(filtered, visible) ==
  [filtered |-> filtered, visible |-> visible, keys |-> VisibilityKeys]

\* a visibility map whose keys were inserted in another order
VisibilityInOrder(keys, visible) ==
  [filtered |-> TRUE, visible |-> visible, keys |-> keys]

\* generateTerrainData called without a visibility map
NoVisibility == Visibility(FALSE, [t \in TerrainNames |-> TRUE])

\* Object.keys(terrainVisibility).filter(terrain => terrainVisibility[terrain])
availableTerrains(visibility) ==
  SelectSeq(visibility.keys, LAMBDA t : visibility.visible[t])

\* the water threshold of checkNearWater, in hundredths
WaterThreshold == 40

\* (variant: the distance must be less than the radius)
checkNearWaterInside(map, row, col, radius) ==
  LET height == Len(map)
      width  == Len(map[1])
  IN  \E r \in Max(0, row - radius)..Min(height - 1, row + radius),
         c \in Max(0, col - radius)..Min(width - 1, col + radius) :
        /\ ~(r = row /\ c = col)
        /\ (r - row) * (r - row) + (c - col) * (c - col) < radius * radius
        /\ RatioLess(map[r + 1][c + 1], Hundredths(WaterThreshold))

\* (variant: the row and the column of the cell exchanged)
checkNearWaterSwapped(map, row, col, radius) ==
  LET height == Len(map)
      width  == Len(map[1])
  IN  \E r \in Max(0, col - radius)..Min(height - 1, col + radius),
         c \in Max(0, row - radius)..Min(width - 1, row + radius) :
        /\ ~(r = col /\ c = row)
        /\ (r - col) * (r - col) + (c - row) * (c - row) <= radius * radius
        /\ RatioLess(map[r + 1][c + 1], Hundredths(WaterThreshold))

\* (variant: every cell of the square around the cell counts, the diagonal
\* ones too)
checkNearWaterSquare(map, row, col, radius) ==
  LET height == Len(map)
      width  == Len(map[1])
  IN  \E r \in Max(0, row - radius)..Min(height - 1, row + radius),
         c \in Max(0, col - radius)..Min(width - 1, col + radius) :
        /\ ~(r = row /\ c = col)
        /\ RatioLess(map[r + 1][c + 1], Hundredths(WaterThreshold))

\* checkNearWater: some other cell within the radius holds a value below the
\* water threshold (row, col count from 0)
checkNearWater(map, row, col, radius) ==
  LET height == Len(map)
      width  == Len(map[1])
  IN  \E r \in Max(0, row - radius)..Min(height - 1, row + radius),
         c \in Max(0, col - radius)..Min(width - 1, col + radius) :
        /\ ~(r = row /\ c = col)
        /\ (r - row) * (r - row) + (c - col) * (c - col) <= radius * radius
        /\ RatioLess(map[r + 1][c + 1], Hundredths(WaterThreshold))

\* (variant: the sand range starts below the water boundary)
terrainRangesShifted ==
  << [terrain |-> "water",    min |-> 0,  max |-> 35],
     [terrain |-> "sand",     min |-> 35, max |-> 45],
     [terrain |-> "land",     min |-> 45, max |-> 65],
     [terrain |-> "hills",    min |-> 65, max |-> 75],
     [terrain |-> "mountain", min |-> 75, max |-> 85],
     [terrain |-> "snow",     min |-> 85, max |-> 95] >>

\* terrainRanges of the filtered classifier, in hundredths
terrainRanges ==
  << [terrain |-> "water",    min |-> 0,  max |-> 40],
     [terrain |-> "sand",     min |-> 40, max |-> 45],
     [terrain |-> "land",     min |-> 45, max |-> 65],
     [terrain |-> "hills",    min |-> 65, max |-> 75],
     [terrain |-> "mountain", min |-> 75, max |-> 85],
     [terrain |-> "snow",     min |-> 85, max |-> 95] >>

\* terrainRanges.find(r => r.terrain === terrain)
findRange(terrain) ==
  terrainRanges[CHOOSE i \in 1..Len(terrainRanges) : terrainRanges[i].terrain = terrain]

\* Math.abs(noiseValue - terrainCenter), the center being (min + max) / 2:
\* the distance in units of 1 / (200 * noiseValue.d), the same unit for every
\* range, so that two distances of one value compare as these numbers do
centerDistance(noiseValue, terrainRange) ==
  Abs(200 * noiseValue.n - (terrainRange.min + terrainRange.max) * noiseValue.d)

\* the loop over availableTerrains from its i-th element on
RECURSIVE closestFrom(_, _, _, _, _)
closestFrom(noiseValue, available, i, closestTerrain, minDistance) ==
  IF i > Len(available) THEN closestTerrain
  ELSE LET distance == centerDistance(noiseValue, findRange(available[i]))
       IN  IF ~IsNaN(noiseValue) /\ distance < minDistance
           THEN closestFrom(noiseValue, available, i + 1, available[i], distance)
           ELSE closestFrom(noiseValue, available, i + 1, closestTerrain, minDistance)

\* (variant: the closest of all six terrains, available or not)
closestOfAll(noiseValue, available) ==
  closestFrom(noiseValue, VisibilityKeys, 1, available[1], Infinity)

\* the closest available terrain by range center
closestAvailable(noiseValue, available) ==
  closestFrom(noiseValue, available, 1, available[1], Infinity)

\* (variant: the beach rule is tried before the natural category is kept)
classifyCellBeachFirst(map, rowIndex, colIndex, visibility) ==
  LET noiseValue      == map[rowIndex + 1][colIndex + 1]
      originalTerrain == getTerrainType(noiseValue)
  IN  IF /\ visibility.visible["sand"]
         /\ originalTerrain = "land"
         /\ checkNearWater(map, rowIndex, colIndex, 1)
      THEN "sand"
      ELSE IF visibility.visible[originalTerrain] THEN originalTerrain
      ELSE closestAvailable(noiseValue, availableTerrains(visibility))

\* the category of one cell in filtered mode with several terrains available
\* (rowIndex, colIndex count from 0)
classifyCell(map, rowIndex, colIndex, visibility) ==
  LET noiseValue      == map[rowIndex + 1][colIndex + 1]
      originalTerrain == getTerrainType(noiseValue)
  IN  IF visibility.visible[originalTerrain] THEN originalTerrain
      ELSE IF /\ visibility.visible["sand"]
              /\ originalTerrain = "land"
              /\ checkNearWater(map, rowIndex, colIndex, 1)
      THEN "sand"
      ELSE closestAvailable(noiseValue, availableTerrains(visibility))

\* the terrain grid generateTerrainData builds from the noise map
classify(map, visibility) ==
  IF visibility.filtered
  THEN LET available == availableTerrains(visibility)
       IN  IF Len(available) = 0
           THEN [y \in DOMAIN map |-> [x \in DOMAIN map[y] |-> "land"]]
           ELSE IF Len(available) = 1
           THEN [y \in DOMAIN map |-> [x \in DOMAIN map[y] |-> available[1]]]
           ELSE [y \in DOMAIN map |->
                   [x \in DOMAIN map[y] |->
                      classifyCell(map, y - 1, x - 1, visibility)]]
  ELSE [y \in DOMAIN map |-> [x \in DOMAIN map[y] |-> getTerrainType(map[y][x])]]

\* no terrain data yet
NoTerrainData == [noiseMap |-> <<>>, terrainMap |-> <<>>]

\* generateTerrainData(config, terrainVisibility): the noise primitive yields
\* the next field of samples, generateMap normalizes it and the classifier
\* labels every cell; the call returns for every config
generateTerrainData ==
  /\ pc = "idle"
  /\ Len(noise) > 0
  /\ LET map == generateMap(config.width, config.height, Head(noise))
     IN  /\ noiseMap' = map
         /\ terrainMap' = classify(map, terrainVisibility)
  /\ noise' = Tail(noise)
  /\ generated' = generated + 1
  /\ earlier' = [noiseMap |-> noiseMap, terrainMap |-> terrainMap]
  /\ UNCHANGED <<config, terrainVisibility, startX, startY, endX, endY, search, lastOp, canvas>>

----------------------------------------------------------------------------
(* The open set on its own: any sequence of push and pop *)

\* the coordinates and the f values of the nodes pushed
HeapKeys == 0..(MaxHeapKeys - 1)
HeapFs   == {Real(500 * k, 0) : k \in 0..MaxHeapF}

\* how the f of a pushed node compares with the f held for its coordinate
pushKind(H, node) ==
  IF getKey(node) \notin DOMAIN H.nodeMap THEN "new"
  ELSE LET oldF == H.heap[H.nodeMap[getKey(node)] + 1].f
       IN  IF RealLess(node.f, oldF) THEN "lower"
           ELSE IF RealLess(oldF, node.f) THEN "higher"
           ELSE "equal"

\* openSet.push(node) for any coordinate and f
heapPush ==
  /\ pc = "heap"
  /\ \E x \in HeapKeys, f \in HeapFs :
       LET node == MakeNode(x, 0, Zero, Zero, f, NoParent)
       IN  /\ openSet' = push(openSet, node)
           /\ lastOp' = [op |-> "push", kind |-> pushKind(openSet, node), f |-> f]
  /\ UNCHANGED <<input, pc, closedSet, gScore, fScore, result, calls, previous,
                 generation, canvas>>

\* openSet.pop(): undefined from the empty heap, else the root
heapPop ==
  /\ pc = "heap"
  /\ IF isEmpty(openSet)
     THEN /\ lastOp' = [op |-> "pop", kind |-> "undefined", f |-> Zero]
          /\ UNCHANGED openSet
     ELSE /\ lastOp' = [op |-> "pop", kind |-> "node", f |-> popNode(openSet).f]
          /\ openSet' = popHeap(openSet)
  /\ UNCHANGED <<input, pc, closedSet, gScore, fScore, result, calls, previous,
                 generation, canvas>>

NextHeap == heapPush \/ heapPop

Next == findPathEnter \/ findPathLoop

NextRepeat == findPathEnter \/ findPathLoop \/ CallAgain

----------------------------------------------------------------------------
(* Inputs *)

\* the rectangular grids of width w and height h over the labels
GridsOf(w, h, labels) == [1..h -> [1..w -> labels]]

\* the labels of the grids with free contents
GridLabels == {"water", "land", "sand"}

\* shapes <<w, h>> of at most n cells: h >= 1 rows of width w >= 1
Shapes(n) == {s \in (1..MaxW) \X (1..MaxH) : s[1] * s[2] <= n}

\* shapes without a cell: no row at all, or rows of width 0
EmptyShapes(n) == {<<0, h>> : h \in 0..n}

\* no heap operation has been made
NoOp == [op |-> "none"]

\* no path is held (path is null)
NoPath == [held |-> FALSE]

\* no window is looked at
NoWindow == [innerWidth |-> 0, innerHeight |-> 0]

\* the engines are called directly: no canvas takes part
NoCanvas ==
  /\ pins = <<>>
  /\ heldPath = NoPath
  /\ isCalculating = FALSE
  /\ timers = <<>>
  /\ pendingEffect = FALSE
  /\ window = NoWindow

\* nothing but findPath uses the heap
OnlySearch == lastOp = NoOp

Fresh ==
  /\ pc = "idle"
  /\ openSet = EmptyHeap
  /\ closedSet = {}
  /\ gScore = EmptyMap
  /\ fScore = EmptyMap
  /\ result = NoResult
  /\ previous = NoResult
  /\ calls = 1
  /\ OnlySearch
  /\ NoCanvas

\* grids with free contents, both endpoints on cells of the grid
InitFree ==
  \E s \in Shapes(MaxCells) :
    /\ terrainMap \in GridsOf(s[1], s[2], GridLabels)
    /\ startX \in 0..(s[1] - 1) /\ startY \in 0..(s[2] - 1)
    /\ endX \in 0..(s[1] - 1) /\ endY \in 0..(s[2] - 1)

\* grids of a single cost-1 category, searched from the corner (0,0)
InitUniform ==
  \E w \in 1..MaxUniformW, h \in 1..MaxUniformH :
    /\ terrainMap \in GridsOf(w, h, {"land"})
    /\ startX = 0 /\ startY = 0
    /\ endX \in 0..(w - 1) /\ endY \in 0..(h - 1)

\* small grids, the empty ones included, endpoints up to one step outside
InitEdge ==
  \E s \in Shapes(MaxEdgeCells) \cup EmptyShapes(MaxEdgeCells) :
    /\ terrainMap \in GridsOf(s[1], s[2], {"water", "land"})
    /\ startX \in -1..s[1] /\ startY \in -1..s[2]
    /\ endX \in -1..s[1] /\ endY \in -1..s[2]

\* Water except for three corridors one cell wide: the land diagonal from
\* (0,0) to the goal (K,K); the column x = 0 from the start (0,K+1) up to
\* (0,0), land with hills on its nh cells nearest the start; and a zigzag of
\* diagonal steps along the rows K+1 and K+2 from the start to the goal,
\* hills after a first land cell
CorridorGrid(K, nh) ==
  [row \in 1..(K + 3) |->
     [col \in 1..(K + 1) |->
        LET x == col - 1
            y == row - 1
        IN  IF x = y THEN "land"
            ELSE IF x = 0 /\ y = K + 1 THEN "land"
            ELSE IF x = 0 /\ y >= 1 /\ y <= K
                 THEN IF y >= K + 1 - nh THEN "hills" ELSE "land"
            ELSE IF x >= 1 /\ x <= K - 1 /\ y = K + 1 + (x % 2)
                 THEN IF x = 1 THEN "land" ELSE "hills"
            ELSE "water"]]

\* a label that TERRAIN_DEFINITIONS does not define
UnknownLabel == "lava"

\* grids over the six categories and the undefined label, both endpoints on
\* cells of the grid
InitLabels ==
  \E s \in Shapes(MaxLabelCells) :
    /\ terrainMap \in GridsOf(s[1], s[2], TerrainNames \cup {UnknownLabel})
    /\ startX \in 0..(s[1] - 1) /\ startY \in 0..(s[2] - 1)
    /\ endX \in 0..(s[1] - 1) /\ endY \in 0..(s[2] - 1)

\* corridor grids, searched from the foot of the column to the end of the diagonal
InitCorridor ==
  \E nh \in 0..CorridorHills :
    /\ terrainMap = CorridorGrid(CorridorLen, nh)
    /\ startX = 0 /\ startY = CorridorLen + 1
    /\ endX = CorridorLen /\ endY = CorridorLen

\* no terrain has been generated: the grid of a search is handed in as it is
Ungenerated ==
  /\ config = [width |-> 0, height |-> 0]
  /\ noise = <<>>
  /\ noiseMap = <<>>
  /\ terrainVisibility = NoVisibility
  /\ generated = 0
  /\ earlier = NoTerrainData

\* no search is asked for
NoSearch ==
  /\ terrainMap = <<>>
  /\ startX = 0 /\ startY = 0 /\ endX = 0 /\ endY = 0

\* the values generateFractalNoise returns, in units of one twentieth
RawLevels == {0, 8, 12, 13, 20}

\* the visibility arguments: none, or any map from the six names to booleans
Visibilities ==
  {NoVisibility} \cup {Visibility(TRUE, v) : v \in [TerrainNames -> BOOLEAN]}

\* the sample fields the noise primitive can yield for a config
SamplesOf(width, height, levels) == GridsOf(Max(width, 0), Max(height, 0), levels)

\* one generation: any width and height from -1 on, of at most MaxGenCells
\* cells, any sample field, any visibility argument
InitGenerate ==
  /\ Fresh /\ NoSearch
  /\ \E w \in -1..MaxGenW, h \in -1..MaxGenH :
       /\ Max(w, 0) * Max(h, 0) <= MaxGenCells
       /\ config = [width |-> w, height |-> h]
       /\ noise \in {<<f>> : f \in SamplesOf(w, h, RawLevels)}
  /\ terrainVisibility \in Visibilities
  /\ noiseMap = <<>>
  /\ generated = 0
  /\ earlier = NoTerrainData

\* generateTerrainData called once on each input
SpecGenerate == InitGenerate /\ [][generateTerrainData]_vars

\* the sample values of the fields generated one after the other
FewLevels == {0, 12, 20}

\* two generations with the same config (one row of cells) and the same
\* visibility argument
InitRegenerate ==
  /\ Fresh /\ NoSearch
  /\ \E w \in 1..MaxRowW :
       /\ config = [width |-> w, height |-> 1]
       /\ noise \in {<<f, g>> : f \in SamplesOf(w, 1, FewLevels),
                                g \in SamplesOf(w, 1, FewLevels)}
  /\ terrainVisibility \in Visibilities
  /\ noiseMap = <<>>
  /\ generated = 0
  /\ earlier = NoTerrainData

\* generateTerrainData called twice on each input
SpecRegenerate == InitRegenerate /\ [][generateTerrainData]_vars

\* the orders in which a caller may have inserted the keys of a visibility map
KeyOrders == {VisibilityKeys, Reverse(VisibilityKeys)}

\* sample values that normalize onto 0, 1 and 9/16 = 0.5625, the elevation
\* halfway between the midpoints of Sand (0.425) and Hills (0.70); the two
\* differences are equal in double arithmetic as well
TieLevels == {0, 9, 16}

\* one generation of a one-row field under any visibility map, its keys in
\* any of the orders
InitKeyOrder ==
  /\ Fresh /\ NoSearch
  /\ \E w \in 1..MaxRowW :
       /\ config = [width |-> w, height |-> 1]
       /\ noise \in {<<f>> : f \in SamplesOf(w, 1, TieLevels)}
  /\ terrainVisibility \in
       {VisibilityInOrder(k, v) : k \in KeyOrders, v \in [TerrainNames -> BOOLEAN]}
  /\ noiseMap = <<>>
  /\ generated = 0
  /\ earlier = NoTerrainData

\* generateTerrainData called once on each of these inputs
SpecKeyOrder == InitKeyOrder /\ [][generateTerrainData]_vars

Init == Fresh /\ Ungenerated /\ (InitFree \/ InitUniform \/ InitEdge)

\* one call of findPath on each input
Spec == Init /\ [][Next]_vars

InitRepeat == Fresh /\ Ungenerated /\ (InitUniform \/ InitEdge)

\* MaxCalls calls of findPath, one after the other, on each input
SpecRepeat == InitRepeat /\ [][NextRepeat]_vars

InitTable == Fresh /\ Ungenerated /\ InitLabels

\* one call of findPath on each grid over all the labels
SpecLabels == InitTable /\ [][Next]_vars

\* one-row grids of water and land, both endpoints on cells of the grid
InitRow ==
  \E w \in 1..MaxRowW :
    /\ terrainMap \in GridsOf(w, 1, {"water", "land"})
    /\ startX \in 0..(w - 1) /\ startY = 0
    /\ endX \in 0..(w - 1) /\ endY = 0

InitEnds == Fresh /\ Ungenerated /\ (InitUniform \/ InitCorridor \/ InitRow)

\* an empty heap, used on its own
InitHeap ==
  /\ pc = "heap"
  /\ openSet = EmptyHeap
  /\ lastOp = NoOp
  /\ closedSet = {} /\ gScore = EmptyMap /\ fScore = EmptyMap
  /\ result = NoResult /\ previous = NoResult /\ calls = 1
  /\ NoSearch /\ Ungenerated /\ NoCanvas

\* any sequence of push and pop on one heap
SpecHeap == InitHeap /\ [][NextHeap]_vars

InitLong == Fresh /\ Ungenerated /\ InitCorridor

\* one call of findPath on each corridor grid
SpecCorridor == InitLong /\ [][Next]_vars

----------------------------------------------------------------------------
(* The map canvas (MapCanvas.tsx): pins, the path held for them, the       *)
(* terrain generated for the window.  Pixel quantities are exact fractions *)
(* [n, d], as the elevations are.                                          *)

\* findPath's while loop run to its return
RECURSIVE searchLoop(_, _, _, _)
searchLoop(S, map, ex, ey) ==
  IF isEmpty(S.openSet) THEN FailedResult
  ELSE LET current    == popNode(S.openSet)
           popped     == popHeap(S.openSet)
           currentKey == CoordKey(current.x, current.y)
           end        == MakeNode(ex, ey, Zero, Zero, Zero, NoParent)
       IN  IF currentKey \in S.closedSet
           THEN searchLoop([S EXCEPT !.openSet = popped], map, ex, ey)
           ELSE IF current.x = ex /\ current.y = ey
           THEN [path |-> reconstructPath(current),
                 distance |-> current.g, success |-> TRUE]
           ELSE LET S0 == [S EXCEPT !.openSet = popped,
                                    !.closedSet = S.closedSet \cup {currentKey}]
                IN  searchLoop(relaxAll(S0, map, current,
                                        getNeighbors(current, map, Len(map[1]), Len(map)),
                                        end, 1),
                               map, ex, ey)

\* findPath(startX, startY, endX, endY, terrainMap) from its entry to its
\* return, on a grid with at least one row
findPath(sx, sy, ex, ey, map) ==
  IF outsideBounds(sx, sy, ex, ey, Len(map[1]), Len(map)) THEN FailedResult
  ELSE IF onImpassable(map, sx, sy, ex, ey) THEN FailedResult
  ELSE IF sx = ex /\ sy = ey THEN trivialResult(sx, sy)
  ELSE searchLoop(newSearchState(sx, sy, ex, ey), map, ex, ey)

\* arithmetic on pixel quantities; denominators stay positive
Whole(k) == Ratio(k, 1)
RatioSub(a, b) == Ratio(a.n * b.d - b.n * a.d, a.d * b.d)
RatioMul(a, b) == Ratio(a.n * b.n, a.d * b.d)
RatioDiv(a, b) == Ratio(a.n * b.d, a.d * b.n)
RatioMin(a, b) == IF RatioLess(b, a) THEN b ELSE a

\* Math.floor of a fraction with a positive denominator
MathFloor(a) ==
  IF a.n >= 0 THEN a.n \div a.d ELSE -((a.d - 1 - a.n) \div a.d)

\* the side, in cells, of the shorter dimension of a generated map (300 in
\* the source; the model keeps the maps small)
baseGridSize == 2

\* the screen-aware config generateNewMap computes from the window
screenAwareConfig(win) ==
  LET canvasWidth  == win.innerWidth
      canvasHeight == win.innerHeight
      wider        == canvasWidth > canvasHeight
      mapWidth     == IF wider THEN (baseGridSize * canvasWidth) \div canvasHeight
                      ELSE baseGridSize
      mapHeight    == IF wider THEN baseGridSize
                      ELSE (baseGridSize * canvasHeight) \div canvasWidth
      cellSizeX    == Ratio(canvasWidth, mapWidth)
      cellSizeY    == Ratio(canvasHeight, mapHeight)
  IN  [width |-> mapWidth, height |-> mapHeight,
       cellSize |-> RatioMin(cellSizeX, cellSizeY)]

\* the grid coordinate of a pixel coordinate p along a dimension of the
\* window of inner pixels, for a map of cells cells of size cellSize
toGrid(p, inner, cells, cellSize) ==
  LET mapSize == RatioMul(Whole(cells), cellSize)
      offset  == RatioDiv(RatioSub(Whole(inner), mapSize), Whole(2))
  IN  MathFloor(RatioDiv(RatioSub(Whole(p), offset), cellSize))

\* the grid cells <<startX, startY, endX, endY>> of two pins
pinCells(ps, win, cfg) ==
  <<toGrid(ps[1].x, win.innerWidth, cfg.width, cfg.cellSize),
    toGrid(ps[1].y, win.innerHeight, cfg.height, cfg.cellSize),
    toGrid(ps[2].x, win.innerWidth, cfg.width, cfg.cellSize),
    toGrid(ps[2].y, win.innerHeight, cfg.height, cfg.cellSize)>>

\* the bounds check of the path effect against the terrain map
withinMap(cells, map) ==
  LET maxX == Len(map[1]) - 1
      maxY == Len(map) - 1
  IN  /\ cells[1] >= 0 /\ cells[2] >= 0 /\ cells[1] <= maxX /\ cells[2] <= maxY
      /\ cells[3] >= 0 /\ cells[4] >= 0 /\ cells[3] <= maxX /\ cells[4] <= maxY

\* a path that is held
Held(r) == [held |-> TRUE, path |-> r.path, distance |-> r.distance,
            success |-> r.success]

\* { ...result, distance: result.distance * scaledConfig.cellSize }: the
\* distance q/500 becomes a fraction of pixels
scaledResult(r, cellSize) ==
  Held([r EXCEPT !.distance = RatioMul(Ratio(r.distance.q, 500), cellSize)])

\* { path: [], distance: 0, success: false } set by the path effect
failedPath == Held([path |-> <<>>, distance |-> Whole(0), success |-> FALSE])

\* what a canvas step leaves alone: no search is run by steps, no noise tape
\* is read
elsewhere == <<startX, startY, endX, endY, search, noise>>

\* the callbacks handed to setTimeout
generateTimer == [kind |-> "generate"]
pathTimer(cells, map, cellSize) ==
  [kind |-> "path", cells |-> cells, terrainMap |-> map, cellSize |-> cellSize]

\* the sizes the browser window takes
Windows == {[innerWidth |-> 4, innerHeight |-> 4],
            [innerWidth |-> 5, innerHeight |-> 4],
            [innerWidth |-> 6, innerHeight |-> 4]}

\* the pixel positions clicked
ClickPoints == {[x |-> 0, y |-> 1], [x |-> 3, y |-> 1],
                [x |-> 3, y |-> 3], [x |-> 5, y |-> 3]}

\* the visibility maps the panel hands over: all shown, water hidden, snow
\* hidden
CanvasVisibilities ==
  {[t \in TerrainNames |-> TRUE],
   [t \in TerrainNames |-> t # "water"],
   [t \in TerrainNames |-> t # "snow"]}

\* the sample fields the noise primitive yields for a canvas: high samples,
\* with at most MaxLowCells low ones
CanvasLevels == {0, 20}
CanvasFields(width, height) ==
  {f \in GridsOf(width, height, CanvasLevels) :
     Cardinality({c \in (1..height) \X (1..width) : f[c[1]][c[2]] = 0}) <= MaxLowCells}

\* the record of the last user event: its name, its number, its argument
Event(op, arg) == [op |-> op, n |-> lastOp.n + 1, arg |-> arg]

\* a user event can be taken: the render and the effect of the previous one
\* are over, and the events are not used up
Interactive ==
  /\ pc = "canvas"
  /\ ~pendingEffect
  /\ lastOp.n < MaxEvents

\* generateNewMap: the config follows the window, the terrain data is
\* generated from fresh noise with the stored visibility and cached
generateNewMap ==
  LET cfg == screenAwareConfig(window)
  IN  /\ config' = cfg
      /\ \E samples \in CanvasFields(cfg.width, cfg.height) :
           LET map == generateMap(cfg.width, cfg.height, samples)
           IN  /\ noiseMap' = map
               /\ terrainMap' = classify(map, terrainVisibility)
      /\ generated' = generated + 1
      /\ earlier' = [noiseMap |-> noiseMap, terrainMap |-> terrainMap]

\* (variant: a third pin is appended)
placePinKeepAll(prevPins, p) == Append(prevPins, p)

\* the setPins updater of handleCanvasClick: at most 2 pins, first in first out
placePin(prevPins, p) ==
  IF Len(prevPins) >= 2 THEN <<prevPins[2], p>> ELSE Append(prevPins, p)

\* handleCanvasClick at a pixel of the canvas
handleCanvasClick ==
  /\ Interactive
  /\ \E p \in ClickPoints :
       /\ p.x < window.innerWidth /\ p.y < window.innerHeight
       /\ pins' = placePin(pins, p)
       /\ lastOp' = Event("click", p)
  /\ heldPath' = NoPath
  /\ isCalculating' = TRUE
  /\ pendingEffect' = TRUE
  /\ UNCHANGED <<terrainMap, generation, timers, window, elsewhere>>

\* regenerateMap: clearPins, then generateNewMap
regenerateMap ==
  /\ Interactive
  /\ pins' = <<>>
  /\ heldPath' = NoPath
  /\ generateNewMap
  /\ pendingEffect' = TRUE
  /\ lastOp' = Event("regenerate", 0)
  /\ UNCHANGED <<terrainVisibility, isCalculating, timers, window, elsewhere>>

\* the window is resized: handleResize defers generateNewMap by 10 ms
handleResize ==
  /\ Interactive
  /\ \E w \in Windows \ {window} :
       /\ window' = w
       /\ lastOp' = Event("resize", w)
  /\ timers' = Append(timers, generateTimer)
  /\ UNCHANGED <<terrainMap, generation, pins, heldPath, isCalculating,
                 pendingEffect, elsewhere>>

\* (variant: a visibility change regenerates the map at once)
setTerrainVisibilityRegenerates ==
  /\ Interactive
  /\ \E v \in CanvasVisibilities :
       /\ terrainVisibility' = Visibility(TRUE, v)
       /\ lastOp' = Event("setTerrainVisibility", v)
       /\ LET cfg == screenAwareConfig(window)
          IN  \E samples \in CanvasFields(cfg.width, cfg.height) :
                LET map == generateMap(cfg.width, cfg.height, samples)
                IN  /\ noiseMap' = map
                    /\ terrainMap' = classify(map, Visibility(TRUE, v))
  /\ UNCHANGED <<config, generated, earlier, canvas, elsewhere>>

\* setTerrainVisibility(newTerrainVisibility)
setTerrainVisibility ==
  /\ Interactive
  /\ \E v \in CanvasVisibilities :
       /\ terrainVisibility' = Visibility(TRUE, v)
       /\ lastOp' = Event("setTerrainVisibility", v)
  /\ UNCHANGED <<terrainMap, config, noiseMap, generated, earlier, canvas, elsewhere>>

\* the path effect, run after the render that follows a change of pins
pathEffect ==
  /\ pc = "canvas"
  /\ pendingEffect
  /\ pendingEffect' = FALSE
  /\ IF Len(pins) = 2 /\ generated > 0
     THEN LET cells == pinCells(pins, window, config)
          IN  IF withinMap(cells, terrainMap)
              THEN /\ timers' = Append(timers, pathTimer(cells, terrainMap, config.cellSize))
                   /\ UNCHANGED <<heldPath, isCalculating>>
              ELSE /\ heldPath' = failedPath
                   /\ isCalculating' = FALSE
                   /\ UNCHANGED timers
     ELSE /\ heldPath' = NoPath
          /\ isCalculating' = FALSE
          /\ UNCHANGED timers
  /\ UNCHANGED <<terrainMap, generation, lastOp, pins, window, elsewhere>>

\* the timers that may run next: the deferred generations run in the order
\* they were set, and a path callback (0 ms) can overtake the generations
\* (10 ms) set before it, never another path callback
Due(i) ==
  /\ i \in 1..Len(timers)
  /\ IF timers[i].kind = "generate" THEN i = 1
     ELSE \A j \in 1..(i - 1) : timers[j].kind = "generate"

Without(s, i) == SubSeq(s, 1, i - 1) \o SubSeq(s, i + 1, Len(s))

\* the callback of the mount effect or of handleResize runs
runGenerateTimer ==
  /\ pc = "canvas"
  /\ ~pendingEffect
  /\ Due(1) /\ timers[1].kind = "generate"
  /\ timers' = Tail(timers)
  /\ generateNewMap
  /\ UNCHANGED <<terrainVisibility, lastOp, pins, heldPath, isCalculating,
                 pendingEffect, window, elsewhere>>

\* the callback of the path effect runs: findPath on the cells and the grid
\* the effect captured
runPathTimer ==
  /\ pc = "canvas"
  /\ ~pendingEffect
  /\ \E i \in 1..Len(timers) :
       /\ Due(i) /\ timers[i].kind = "path"
       /\ LET t == timers[i]
              r == findPath(t.cells[1], t.cells[2], t.cells[3], t.cells[4], t.terrainMap)
          IN  heldPath' = scaledResult(r, t.cellSize)
       /\ timers' = Without(timers, i)
  /\ isCalculating' = FALSE
  /\ UNCHANGED <<terrainMap, generation, lastOp, pins, pendingEffect, window, elsewhere>>

NextCanvas ==
  \/ handleCanvasClick \/ regenerateMap \/ handleResize \/ setTerrainVisibility
  \/ pathEffect \/ runGenerateTimer \/ runPathTimer

\* the canvas after its first render: no pin, no path, no terrain yet, every
\* terrain shown; the mount effect has deferred generateNewMap by 10 ms and
\* the path effect has run on no pin
InitCanvas ==
  /\ pc = "canvas"
  /\ openSet = EmptyHeap /\ closedSet = {} /\ gScore = EmptyMap /\ fScore = EmptyMap
  /\ result = NoResult /\ previous = NoResult /\ calls = 1
  /\ NoSearch
  /\ config = [width |-> 0, height |-> 0, cellSize |-> Whole(0)]
  /\ noise = <<>> /\ noiseMap = <<>> /\ generated = 0 /\ earlier = NoTerrainData
  /\ terrainVisibility = Visibility(TRUE, [t \in TerrainNames |-> TRUE])
  /\ lastOp = [op |-> "mount", n |-> 0, arg |-> 0]
  /\ pins = <<>> /\ heldPath = NoPath /\ isCalculating = FALSE
  /\ timers = <<generateTimer>>
  /\ pendingEffect = FALSE
  /\ window \in Windows

\* any MaxEvents user events on a canvas, with the callbacks they defer
SpecCanvas == InitCanvas /\ [][NextCanvas]_vars

\* what the run of a callback does to the pending callbacks: the path effect
\* runs and may set a path timer, or a timer that is due runs
Drain ==
  /\ pc = "canvas"
  /\ pendingEffect' = FALSE
  /\ IF pendingEffect
     THEN \/ timers' = timers
          \/ /\ Len(pins) = 2 /\ generated > 0
             /\ timers' = Append(timers, pathTimer(pinCells(pins, window, config),
                                                   terrainMap, config.cellSize))
     ELSE \E i \in 1..Len(timers) : Due(i) /\ timers' = Without(timers, i)

\* the same events, where the event loop runs every callback handed to it:
\* as long as a callback is pending, one of them runs
SpecCanvasFair ==
  InitCanvas /\ [][NextCanvas]_vars /\ WF_<<timers, pendingEffect>>(Drain)

----------------------------------------------------------------------------
(* Reference definitions for the properties: the grid as a weighted graph  *)

\* (x, y) is a cell of the grid
OnGrid(map, x, y) ==
  /\ y >= 0 /\ y < Len(map)
  /\ x >= 0 /\ x < Len(map[y + 1])

GridCells(map) ==
  IF Len(map) = 0 THEN {}
  ELSE (0..(Len(map[1]) - 1)) \X (0..(Len(map) - 1))

\* the cost of the category of cell c
CostAt(map, c) == getTerrainCost(Cell(map, c[1], c[2]))

\* Water is the impassable category
Passable(map, c) == Cell(map, c[1], c[2]) # "water"

\* success=false, path=[], distance=0
IsFailure(r) == r.success = FALSE /\ r.path = <<>> /\ r.distance = Zero

\* c and d are distinct and differ by at most 1 in x and in y
Adjacent(c, d) ==
  /\ c # d
  /\ Abs(c[1] - d[1]) <= 1
  /\ Abs(c[2] - d[2]) <= 1

\* the eight positions around c
Around(c) ==
  {<<c[1] + dx, c[2] + dy>> : dx \in -1..1, dy \in -1..1} \ {c}

\* the charge, in units of 0.002, for the step from c into d: the cost of
\* d, times 1.414 when both coordinates change
StepCost(map, c, d) ==
  IF c[1] # d[1] /\ c[2] # d[2] THEN 707 * CostAt(map, d) ELSE 500 * CostAt(map, d)

SetMin(S) == CHOOSE m \in S : \A n \in S : m <= n

\* the distances d from the start over the passable cells, relaxed along
\* every step until none improves (Bellman-Ford)
RECURSIVE Relaxed(_, _, _)
Relaxed(map, cells, d) ==
  LET next == \* (@@ makes TLC compute the round's distances once)
        [c \in cells |->
           SetMin({d[c]} \cup
                  {d[n] + StepCost(map, n, c) :
                     n \in {m \in Around(c) \cap cells : d[m] < Infinity}})]
          @@ EmptyMap
  IN  IF next = d THEN d ELSE Relaxed(map, cells, next)

\* the least summed step cost of a path of passable cells from s to t, in
\* units of 0.002; Infinity when there is none
LeastCost(map, s, t) ==
  LET cells == {c \in GridCells(map) : Passable(map, c)}
      d0    == [c \in cells |-> IF c = s THEN 0 ELSE Infinity] @@ EmptyMap
  IN  IF s \in cells /\ t \in cells THEN Relaxed(map, cells, d0)[t] ELSE Infinity

StartCell == <<startX, startY>>
EndCell   == <<endX, endY>>

\* both endpoints are passable cells of the grid
EndpointsValid ==
  /\ OnGrid(terrainMap, startX, startY) /\ Passable(terrainMap, StartCell)
  /\ OnGrid(terrainMap, endX, endY) /\ Passable(terrainMap, EndCell)

Connected == LeastCost(terrainMap, StartCell, EndCell) < Infinity

Returned == pc = "returned"

At(node) == <<node.x, node.y>>

HasLabel(label) == \E c \in GridCells(terrainMap) : Cell(terrainMap, c[1], c[2]) = label

\* a call is under way
Running == pc = "idle" \/ pc = "searching"

\* what a step of a call does to pc and closedSet: it moves pc on or closes
\* one more coordinate
Advance ==
  /\ Running
  /\ pc' \in {"searching", "returned", "threw"}
  /\ \/ closedSet' = closedSet
     \/ \E c \in GridCells(terrainMap) : closedSet' = closedSet \cup {CoordKey(c[1], c[2])}

\* one call of findPath on each of these inputs, run to its end: findPath is
\* a synchronous computation, which takes its next step as long as it has
\* not returned or thrown
SpecTerminates == InitEnds /\ [][Next]_vars /\ WF_<<pc, closedSet>>(Advance)

----------------------------------------------------------------------------
(* Properties *)

\* C1: when findPath returns success, its distance is the least summed step
\* cost over all 8-connected paths of finite-cost cells from start to goal
C1_DistanceIsLeastCost ==
  (Returned /\ result.success) =>
     /\ EndpointsValid
     /\ result.distance = Real(LeastCost(terrainMap, StartCell, EndCell), 0)

\* C2: with valid, distinct endpoints joined by a path of finite-cost cells,
\* findPath never returns failure
C2_SuccessWhenConnected ==
  (Returned /\ EndpointsValid /\ StartCell # EndCell /\ Connected) => result.success

\* a search between distinct cells on a grid with water succeeded after
\* expanding more than the start
C2_Witness ==
  /\ Returned /\ EndpointsValid /\ StartCell # EndCell /\ Connected
  /\ HasLabel("water")
  /\ Cardinality(closedSet) > 2
  /\ result.success

\* C3: with valid endpoints that no path of passable cells joins, findPath
\* returns success=false, path=[], distance=0
C3_FailureWhenDisconnected ==
  (Returned /\ EndpointsValid /\ ~Connected) => IsFailure(result)

\* a search ran until the open set was exhausted and returned the failure
C3_Witness ==
  /\ Returned /\ EndpointsValid /\ ~Connected
  /\ Cardinality(closedSet) >= 2
  /\ isEmpty(openSet)
  /\ IsFailure(result)

\* C4: a successful path starts at the start, ends at the goal, moves between
\* 8-adjacent cells and stays on finite-cost cells of the grid
C4_PathIsValid ==
  (Returned /\ result.success) =>
     LET path == result.path
     IN  /\ Len(path) >= 1
         /\ At(path[1]) = StartCell
         /\ At(path[Len(path)]) = EndCell
         /\ \A i \in 1..(Len(path) - 1) : Adjacent(At(path[i]), At(path[i + 1]))
         /\ \A i \in 1..Len(path) :
              /\ OnGrid(terrainMap, path[i].x, path[i].y)
              /\ Passable(terrainMap, At(path[i]))

\* a successful path of at least three nodes on a grid that holds water
C4_Witness ==
  /\ Returned /\ result.success
  /\ Len(result.path) >= 3
  /\ HasLabel("water")

\* C5: the distance is the sum of the step costs along the path, the start
\* cell not counted, and each path node's g is the cost of the prefix ending
\* at it
C5_DistanceIsPathSum ==
  (Returned /\ result.success) =>
     LET path == result.path
     IN  /\ path[1].g = Zero
         /\ \A i \in 2..Len(path) :
              path[i].g = RealAdd(path[i - 1].g,
                                  Real(StepCost(terrainMap, At(path[i - 1]), At(path[i])), 0))
         /\ result.distance = path[Len(path)].g

\* a successful path with a diagonal and a straight step that enters sand
C5_Witness ==
  /\ Returned /\ result.success
  /\ \E i \in 2..Len(result.path) :
       /\ result.path[i].x # result.path[i - 1].x
       /\ result.path[i].y # result.path[i - 1].y
  /\ \E i \in 2..Len(result.path) :
       \/ result.path[i].x = result.path[i - 1].x
       \/ result.path[i].y = result.path[i - 1].y
  /\ \E i \in 2..Len(result.path) :
       Cell(terrainMap, result.path[i].x, result.path[i].y) = "sand"
  /\ Cell(terrainMap, startX, startY) = "sand"

\* C6 (as claimed): a call with an endpoint outside the grid, the grid with
\* zero rows or zero-width rows included, never throws and returns the
\* failed result
C6_OutOfBoundsFailsNeverThrows ==
  (~OnGrid(terrainMap, startX, startY) \/ ~OnGrid(terrainMap, endX, endY)) =>
     /\ pc # "threw"
     /\ Returned => IsFailure(result)

\* C7: if the start cell or the goal cell is Water, findPath returns
\* success=false, path=[], distance=0
C7_WaterEndpointFails ==
  (/\ Returned
   /\ \/ OnGrid(terrainMap, startX, startY) /\ ~Passable(terrainMap, StartCell)
      \/ OnGrid(terrainMap, endX, endY) /\ ~Passable(terrainMap, EndCell))
  => IsFailure(result)

\* a call from a Water cell to an adjacent passable cell returned the failure
C7_Witness ==
  /\ Returned
  /\ OnGrid(terrainMap, startX, startY) /\ ~Passable(terrainMap, StartCell)
  /\ OnGrid(terrainMap, endX, endY) /\ Passable(terrainMap, EndCell)
  /\ Adjacent(StartCell, EndCell)
  /\ IsFailure(result)

\* C8: findPath(x, y, x, y, grid) on a passable cell of the grid returns
\* success, the one-node path (x, y) and distance 0, whatever the other cells
\* hold
C8_TrivialPath ==
  (/\ Returned
   /\ OnGrid(terrainMap, startX, startY) /\ Passable(terrainMap, StartCell)
   /\ StartCell = EndCell)
  => /\ result.success
     /\ Len(result.path) = 1
     /\ At(result.path[1]) = StartCell
     /\ result.distance = Zero

\* the trivial call returned on a grid that also holds water and sand
C8_Witness ==
  /\ Returned
  /\ OnGrid(terrainMap, startX, startY) /\ Passable(terrainMap, StartCell)
  /\ StartCell = EndCell
  /\ HasLabel("water") /\ HasLabel("sand")
  /\ result.success /\ Len(result.path) = 1

\* C9: a second findPath call with the same endpoints on the same grid
\* returns the same success flag, distance and path as the first
C9_SameResultAgain ==
  (Returned /\ calls > 1) => result = previous

\* a repeated search on a grid with equal-cost routes returned a path of at
\* least three steps a second time
C9_Witness ==
  /\ Returned /\ calls > 1
  /\ result.success
  /\ Len(result.path) >= 4
  /\ Abs(endX - startX) # Abs(endY - startY)
  /\ previous.success

\* every cell carries the same category, of cost 1
UniformCostOne ==
  /\ GridCells(terrainMap) # {}
  /\ \A c \in GridCells(terrainMap) :
       /\ Cell(terrainMap, c[1], c[2]) = Cell(terrainMap, 0, 0)
       /\ CostAt(terrainMap, c) = 1

DiagonalSteps(path) ==
  Cardinality({i \in 2..Len(path) : path[i].x # path[i - 1].x /\ path[i].y # path[i - 1].y})


\* C10: on a uniform cost-1 grid the path from (0,0) to (a,b) has max(a,b)
\* steps, min(a,b) of them diagonal, and costs min(a,b) * 1.414 + |a - b|
C10_UniformGridPath ==
  (/\ Returned /\ UniformCostOne
   /\ startX = 0 /\ startY = 0
   /\ OnGrid(terrainMap, endX, endY))
  => /\ result.success
     /\ Len(result.path) - 1 = Max(endX, endY)
     /\ DiagonalSteps(result.path) = Min(endX, endY)
     /\ result.distance = Real(Min(endX, endY) * 707 + Abs(endX - endY) * 500, 0)

\* (0,0) to (3,4) on the 4x5 grid: 4 steps, three diagonal steps plus 1
C10_Witness ==
  /\ Returned /\ UniformCostOne
  /\ Len(terrainMap) = 5 /\ Len(terrainMap[1]) = 4
  /\ startX = 0 /\ startY = 0 /\ endX = 3 /\ endY = 4
  /\ Len(result.path) = 5
  /\ DiagonalSteps(result.path) = 3
  /\ result.distance = Real(3 * 707 + 500, 0)

\* C11: in the cost table Water is the only category of infinite cost, and
\* Sand, Land, Hills, Mountain and Snow each cost a finite amount of at
\* least 1; so it is for the category of every cell of the grid searched
C11_OnlyWaterIsInfinite ==
  /\ \A t \in TerrainNames :
       IF t = "water" THEN getTerrainCost(t) = Infinity
       ELSE getTerrainCost(t) >= 1 /\ getTerrainCost(t) < Infinity
  /\ \A c \in GridCells(terrainMap) :
       Cell(terrainMap, c[1], c[2]) \in TerrainNames =>
          (CostAt(terrainMap, c) = Infinity <=> Cell(terrainMap, c[1], c[2]) = "water")

\* a search on a grid that holds Water stepped into Sand and charged its cost
C11_Witness ==
  /\ Returned /\ result.success
  /\ HasLabel("water")
  /\ Cell(terrainMap, endX, endY) = "sand"
  /\ result.distance = Real(3 * 500, 0)

\* the rank of a category in getTerrainOrder
RankOf(t) == CHOOSE i \in 1..Len(getTerrainOrder) : getTerrainOrder[i] = t

\* the categories of finite cost that the grid holds
PassableCategories ==
  {t \in TerrainNames : HasLabel(t) /\ getTerrainCost(t) < Infinity}

\* among the categories of S a higher rank never costs less
NonDecreasing(S) ==
  \A a \in S, b \in S : RankOf(a) < RankOf(b) => getTerrainCost(a) <= getTerrainCost(b)

\* Land costs no more than any category of S
LandCheapest(S) == \A t \in S : getTerrainCost("land") <= getTerrainCost(t)

\* C12 (as claimed): through Sand, Land, Hills, Mountain, Snow the cost never
\* decreases, and Land is the cheapest; so it is among the passable
\* categories of every grid searched
C12_CostsRiseFromSand ==
  /\ NonDecreasing(PassableCategories)
  /\ LandCheapest(PassableCategories)

\* C12 (amended): through Land, Hills, Mountain, Snow the cost never
\* decreases and Land is the cheapest of the passable categories; Sand,
\* ranked below Land, costs more than Land and than Hills
C12_CostsRiseFromLand ==
  /\ NonDecreasing(PassableCategories \ {"sand"})
  /\ LandCheapest(PassableCategories)
  /\ "sand" \in PassableCategories =>
       /\ RankOf("sand") < RankOf("land")
       /\ getTerrainCost("sand") > getTerrainCost("land")
       /\ getTerrainCost("sand") > getTerrainCost("hills")

\* on a grid that holds Hills, a search from a Sand cell into the Land cell
\* next to it was charged 1
C12_Witness ==
  /\ Returned /\ result.success
  /\ Cell(terrainMap, startX, startY) = "sand"
  /\ Cell(terrainMap, endX, endY) = "land"
  /\ Adjacent(StartCell, EndCell)
  /\ HasLabel("hills")
  /\ result.distance = Real(500, 0)

\* a label with a definition stands for itself, any other label for Land
AsLand(label) == IF label \in TerrainNames THEN label ELSE "land"

\* the charge, in units of 0.002, for the step from c into d when an
\* undefined label costs what Land costs
StepCostAsLand(map, c, d) ==
  LET cost == DefinitionCost(AsLand(Cell(map, d[1], d[2])))
  IN  IF c[1] # d[1] /\ c[2] # d[2] THEN 707 * cost ELSE 500 * cost

\* the cells joined to the cells of S by steps between cells that are not Water
RECURSIVE Flood(_, _)
Flood(map, S) ==
  LET more == S \cup {c \in GridCells(map) :
                        Passable(map, c) /\ \E d \in S : Adjacent(c, d)}
  IN  IF more = S THEN S ELSE Flood(map, more)

\* C13: a cell with a label outside the six names costs 1: no call throws
\* because of it, a search between cells that are not Water and that such
\* cells join succeeds, and every step of the path is charged the cost of the
\* cell entered with the undefined label counted as Land
C13_UnknownLabelCostsOne ==
  /\ pc # "threw"
  /\ \A c \in GridCells(terrainMap) :
       CostAt(terrainMap, c) = DefinitionCost(AsLand(Cell(terrainMap, c[1], c[2])))
  /\ (Returned /\ EndpointsValid /\ EndCell \in Flood(terrainMap, {StartCell}))
       => result.success
  /\ (Returned /\ result.success) =>
       LET path == result.path
       IN  /\ \A i \in 2..Len(path) :
                path[i].g = RealAdd(path[i - 1].g,
                                    Real(StepCostAsLand(terrainMap, At(path[i - 1]), At(path[i])), 0))
           /\ result.distance = path[Len(path)].g

\* a search from an undefined label through an undefined label to an
\* undefined label succeeded at a cost of 2
C13_Witness ==
  /\ Returned /\ result.success
  /\ Len(result.path) = 3
  /\ \A i \in 1..3 :
       Cell(terrainMap, result.path[i].x, result.path[i].y) = UnknownLabel
  /\ result.distance = Real(2 * 500, 0)

\* the cells of a field, as <<row, column>> counted from 1
FieldCells(map) == UNION {{<<y, x>> : x \in DOMAIN map[y]} : y \in DOMAIN map}

\* the boundary of the category of rank i
BoundaryOf(i) == Hundredths(TERRAIN_BOUNDARIES[getTerrainOrder[i]])

\* the category of the first boundary, in ascending order, that v is
\* strictly below; Snow when there is none
FirstBoundaryAbove(v) ==
  LET above == {i \in 1..Len(getTerrainOrder) : RatioLess(v, BoundaryOf(i))}
  IN  IF above = {} THEN "snow" ELSE getTerrainOrder[MathMin(above)]

\* some cell orthogonally next to cell <<y, x>> holds a value below the
\* Water boundary
WaterBeside(map, y, x) ==
  \E c \in FieldCells(map) :
    /\ Abs(c[1] - y) + Abs(c[2] - x) = 1
    /\ RatioLess(map[c[1]][c[2]], Hundredths(TERRAIN_BOUNDARIES.water))

\* the categories the visibility map shows
Active == {t \in TerrainNames : terrainVisibility.visible[t]}

\* C14: the boundaries strictly increase from Water to Snow, the ranges of
\* the filtered classifier run from each boundary to the next, and the water
\* threshold of the beach check is the Water boundary; so for every value
\* generated the range that holds it names its category, and the beach check
\* calls it water exactly when its category is Water
C14_BoundariesOrderedAndShared ==
  /\ \A i \in 1..(Len(getTerrainOrder) - 1) :
       TERRAIN_BOUNDARIES[getTerrainOrder[i]] < TERRAIN_BOUNDARIES[getTerrainOrder[i + 1]]
  /\ \A i \in 1..Len(getTerrainOrder) :
       /\ terrainRanges[i].terrain = getTerrainOrder[i]
       /\ terrainRanges[i].max = TERRAIN_BOUNDARIES[getTerrainOrder[i]]
       /\ terrainRanges[i].min =
            IF i = 1 THEN 0 ELSE TERRAIN_BOUNDARIES[getTerrainOrder[i - 1]]
  /\ WaterThreshold = TERRAIN_BOUNDARIES.water
  /\ \A c \in FieldCells(noiseMap) :
       LET v == noiseMap[c[1]][c[2]]
       IN  /\ \A i \in 1..Len(terrainRanges) :
                (/\ RatioLessEq(Hundredths(terrainRanges[i].min), v)
                 /\ RatioLess(v, Hundredths(terrainRanges[i].max)))
                => getTerrainType(v) = terrainRanges[i].terrain
           /\ RatioLess(v, Hundredths(WaterThreshold)) <=> getTerrainType(v) = "water"

\* a field was generated with a value on the Water boundary, classified
\* above it, and a value below it
C14_Witness ==
  /\ generated > 0
  /\ \E c \in FieldCells(noiseMap) :
       /\ RatioEq(noiseMap[c[1]][c[2]], Hundredths(TERRAIN_BOUNDARIES.water))
       /\ getTerrainType(noiseMap[c[1]][c[2]]) = "sand"
  /\ \E c \in FieldCells(noiseMap) : getTerrainType(noiseMap[c[1]][c[2]]) = "water"

\* C15: without a visibility map every value of [0,1] gets the category of
\* the first boundary it is strictly below, Snow at or above the highest
\* boundary; a value on a boundary gets the higher category
C15_DefaultCategory ==
  (generated > 0 /\ ~terrainVisibility.filtered) =>
     \A c \in FieldCells(noiseMap) :
       LET v == noiseMap[c[1]][c[2]]
       IN  ~IsNaN(v) =>
             /\ terrainMap[c[1]][c[2]] \in TerrainNames
             /\ terrainMap[c[1]][c[2]] = FirstBoundaryAbove(v)
             /\ \A i \in 1..(Len(getTerrainOrder) - 1) :
                  RatioEq(v, BoundaryOf(i)) => terrainMap[c[1]][c[2]] = getTerrainOrder[i + 1]

\* a field classified without a visibility map holds a value on the Land
\* boundary, labelled Hills, the value 1, labelled Snow, and the value 0,
\* labelled Water
C15_Witness ==
  /\ generated > 0 /\ ~terrainVisibility.filtered
  /\ \E c \in FieldCells(noiseMap) :
       /\ RatioEq(noiseMap[c[1]][c[2]], Hundredths(TERRAIN_BOUNDARIES.land))
       /\ terrainMap[c[1]][c[2]] = "hills"
  /\ \E c \in FieldCells(noiseMap) :
       /\ RatioEq(noiseMap[c[1]][c[2]], Ratio(1, 1))
       /\ terrainMap[c[1]][c[2]] = "snow"
  /\ \E c \in FieldCells(noiseMap) :
       /\ RatioEq(noiseMap[c[1]][c[2]], Ratio(0, 1))
       /\ terrainMap[c[1]][c[2]] = "water"

\* C16: with a visibility map every cell gets a category the map shows, and
\* Land when the map shows none
C16_CategoryIsActive ==
  (generated > 0 /\ terrainVisibility.filtered) =>
     \A c \in FieldCells(noiseMap) :
       IF Active = {} THEN terrainMap[c[1]][c[2]] = "land"
       ELSE terrainMap[c[1]][c[2]] \in Active

\* with two categories or more shown, a cell whose natural category is
\* hidden got a category that is shown
C16_Witness ==
  /\ generated > 0 /\ terrainVisibility.filtered
  /\ Cardinality(Active) >= 2
  /\ \E c \in FieldCells(noiseMap) :
       /\ ~IsNaN(noiseMap[c[1]][c[2]])
       /\ FirstBoundaryAbove(noiseMap[c[1]][c[2]]) \notin Active
       /\ terrainMap[c[1]][c[2]] \in Active

\* C17 (as claimed): with water hidden and sand and land shown, a cell in the
\* Land range orthogonally next to a value below the Water boundary is Sand
C17_BeachWhileLandShown ==
  (/\ generated > 0 /\ terrainVisibility.filtered
   /\ ~terrainVisibility.visible["water"]
   /\ terrainVisibility.visible["sand"]
   /\ terrainVisibility.visible["land"]) =>
     \A c \in FieldCells(noiseMap) :
       (/\ FirstBoundaryAbove(noiseMap[c[1]][c[2]]) = "land"
        /\ WaterBeside(noiseMap, c[1], c[2]))
       => terrainMap[c[1]][c[2]] = "sand"

\* C17 (amended): with water hidden and sand shown, a cell in the Land range
\* orthogonally next to a value below the Water boundary is Sand when land is
\* hidden, and stays Land when land is shown
C17_BeachWhenLandHidden ==
  (/\ generated > 0 /\ terrainVisibility.filtered
   /\ ~terrainVisibility.visible["water"]
   /\ terrainVisibility.visible["sand"]) =>
     \A c \in FieldCells(noiseMap) :
       (/\ ~IsNaN(noiseMap[c[1]][c[2]])
        /\ FirstBoundaryAbove(noiseMap[c[1]][c[2]]) = "land"
        /\ WaterBeside(noiseMap, c[1], c[2]))
       => terrainMap[c[1]][c[2]] =
            IF terrainVisibility.visible["land"] THEN "land" ELSE "sand"

\* with water and land hidden and sand and hills shown, a cell in the Land
\* range whose value is nearer the Hills range than the Sand range is Sand
\* because a value below the Water boundary lies next to it
C17_Witness ==
  /\ generated > 0 /\ terrainVisibility.filtered
  /\ Active = {"sand", "hills"}
  /\ \E c \in FieldCells(noiseMap) :
       /\ RatioEq(noiseMap[c[1]][c[2]], Hundredths(60))
       /\ WaterBeside(noiseMap, c[1], c[2])
       /\ terrainMap[c[1]][c[2]] = "sand"

C19_NonPositiveDimensionsFail ==
  (config.width <= 0 \/ config.height <= 0) => generated = 0

\* C20 (as claimed): two fields classified under the same visibility map
\* give a cell where they hold the same value the same category
C20_CategoryFromOwnValue ==
  generated = 2 =>
     \A c \in FieldCells(noiseMap) :
       RatioEq(earlier.noiseMap[c[1]][c[2]], noiseMap[c[1]][c[2]])
       => earlier.terrainMap[c[1]][c[2]] = terrainMap[c[1]][c[2]]

\* C20 (amended): two fields classified under the same visibility map give a
\* cell the same category where they hold the same value and agree on
\* whether a value below the Water boundary lies orthogonally next to it
C20_CategoryFromValueAndShore ==
  generated = 2 =>
     \A c \in FieldCells(noiseMap) :
       (/\ RatioEq(earlier.noiseMap[c[1]][c[2]], noiseMap[c[1]][c[2]])
        /\ WaterBeside(earlier.noiseMap, c[1], c[2]) <=> WaterBeside(noiseMap, c[1], c[2]))
       => earlier.terrainMap[c[1]][c[2]] = terrainMap[c[1]][c[2]]

\* two different fields were classified under a map that hides land and
\* shows sand and hills; a cell holds the same Land-range value in both,
\* nearer the Hills range than the Sand range, with a value below the Water
\* boundary next to it in both, and got Sand both times
C20_Witness ==
  /\ generated = 2
  /\ earlier.noiseMap # noiseMap
  /\ Active = {"sand", "hills"}
  /\ \E c \in FieldCells(noiseMap) :
       /\ RatioEq(earlier.noiseMap[c[1]][c[2]], noiseMap[c[1]][c[2]])
       /\ RatioEq(noiseMap[c[1]][c[2]], Hundredths(60))
       /\ WaterBeside(earlier.noiseMap, c[1], c[2])
       /\ WaterBeside(noiseMap, c[1], c[2])
       /\ terrainMap[c[1]][c[2]] = "sand"
       /\ earlier.terrainMap[c[1]][c[2]] = "sand"

\* C21: no step of a call changes a cell of the grid, whether the call
\* succeeds, fails or fails fast; a call that starts searching starts from an
\* empty closed set, score maps that hold the start alone and an open set
\* that holds the start alone, whatever the call before it left; and a call
\* repeated on the same input returns what the call before it returned
C21_GridUntouchedNoCarryOver ==
  /\ [][/\ terrainMap' = terrainMap
        /\ (pc = "idle" /\ pc' = "searching") =>
             LET startKey == CoordKey(startX, startY)
             IN  /\ closedSet' = {}
                 /\ DOMAIN gScore' = {startKey}
                 /\ gScore'[startKey] = Zero
                 /\ DOMAIN fScore' = {startKey}
                 /\ Len(openSet'.heap) = 1
                 /\ DOMAIN openSet'.nodeMap = {startKey}]_vars
  /\ []((Returned /\ calls > 1) => result = previous)

\* a second search on a grid that holds water closed the start and the goal
\* and succeeded as the first did
C21_Witness ==
  /\ Returned /\ calls > 1
  /\ HasLabel("water")
  /\ Cardinality(closedSet) >= 2
  /\ result.success /\ previous.success

\* C25 (as claimed): from every passable cell n joined to the goal by
\* passable cells, the Euclidean distance from n to the goal is not greater
\* than the least summed step cost from n to the goal
C25_HeuristicAdmissible ==
  \A n \in GridCells(terrainMap) :
    (/\ OnGrid(terrainMap, endX, endY)
     /\ Passable(terrainMap, n)
     /\ LeastCost(terrainMap, n, EndCell) < Infinity)
    => ~RealLess(Real(LeastCost(terrainMap, n, EndCell), 0),
                 getHeuristic([x |-> n[1], y |-> n[2]], [x |-> endX, y |-> endY]))

\* a call's first step ended it: no search state was created
FastFailed == Returned /\ openSet = EmptyHeap

OpenEntries == {openSet.heap[i] : i \in 1..Len(openSet.heap)}

\* C27: a step of the search leaves the g recorded for a coordinate as it is
\* or replaces it by a strictly smaller one, and leaves it as it is once the
\* coordinate is closed; every entry of the open set carries the g recorded
\* for its coordinate, and, unless it is the start, a back-reference to a
\* closed node from which the step into it costs the difference of the two g
C27_RecordedGOnlyImproves ==
  /\ [][\A k \in DOMAIN gScore :
          /\ k \in DOMAIN gScore'
          /\ gScore'[k] = gScore[k] \/ RealLess(gScore'[k], gScore[k])
          /\ k \in closedSet => gScore'[k] = gScore[k]]_vars
  /\ [](pc = "searching" =>
          \A e \in OpenEntries :
            /\ getKey(e) \in DOMAIN gScore
            /\ e.g = gScore[getKey(e)]
            /\ getKey(e) \notin closedSet
            /\ IF At(e) = StartCell /\ e.parent = NoParent THEN e.g = Zero
               ELSE /\ e.parent # NoParent
                    /\ getKey(e.parent[1]) \in closedSet
                    /\ e.g = RealAdd(e.parent[1].g,
                                     movementCost(terrainMap, e.parent[1], e)))

\* a search holds an open-set entry whose recorded g was lowered: it entered
\* the cell at a cost below that of the step from the start into it
C27_Witness ==
  /\ pc = "searching"
  /\ \E e \in OpenEntries :
       /\ e.parent # NoParent
       /\ At(e.parent[1]) # StartCell
       /\ Adjacent(At(e), StartCell)
       /\ RealLess(e.g, movementCost(terrainMap, [x |-> startX, y |-> startY], e))

\* f = g + h, with h the Euclidean distance from the node to the goal
SumsUp(node) ==
  /\ node.h = getHeuristic(node, [x |-> endX, y |-> endY])
  /\ node.f = RealAdd(node.g, node.h)

\* C29 (as claimed): every node held in the open set and every node of a
\* returned path, the start node included, has f = g + h with h the
\* Euclidean distance to the goal
C29_NodesSatisfyFEqualsGPlusH ==
  /\ pc = "searching" => \A e \in OpenEntries : SumsUp(e)
  /\ (Returned /\ result.success) =>
       \A i \in 1..Len(result.path) : SumsUp(result.path[i])

\* every node but the start node has f = g + h
C29_AllButTheStart ==
  /\ pc = "searching" =>
       \A e \in OpenEntries : e.parent # NoParent => SumsUp(e)
  /\ (Returned /\ result.success) =>
       \A i \in 1..Len(result.path) :
         (result.path[i].parent # NoParent \/ StartCell = EndCell) => SumsUp(result.path[i])

\* the keys of the cells of the grid
GridKeys == {CoordKey(c[1], c[2]) : c \in GridCells(terrainMap)}

\* C30: every call ends; a pop of a coordinate that is not closed closes it,
\* so that no coordinate is expanded twice, and a pop of a closed coordinate
\* changes nothing but the open set; the pop of the goal ends the call with
\* success and leaves the scores and the rest of the open set as they were;
\* every step of a call moves pc on or closes a coordinate; the closed set
\* holds cells of the grid only and, while the search runs, neither the goal
\* nor the coordinate about to be popped
C30_SearchTerminates ==
  /\ <>(pc = "returned" \/ pc = "threw")
  /\ [][(pc = "searching" /\ ~isEmpty(openSet)) =>
          LET current    == popNode(openSet)
              currentKey == getKey(current)
          IN  IF currentKey \in closedSet
              THEN UNCHANGED <<pc, closedSet, gScore, fScore, result>>
              ELSE /\ closedSet' = closedSet \cup {currentKey}
                   /\ Cardinality(closedSet') = Cardinality(closedSet) + 1
                   /\ At(current) = EndCell =>
                        /\ pc' = "returned"
                        /\ result'.success
                        /\ openSet' = popHeap(openSet)
                        /\ UNCHANGED <<gScore, fScore>>
                   /\ At(current) # EndCell => pc' = "searching"]_vars
  /\ [][Running => <<pc, closedSet>>' # <<pc, closedSet>>]_vars
  /\ [](/\ closedSet \subseteq GridKeys
        /\ pc = "searching" => CoordKey(endX, endY) \notin closedSet
        /\ (pc = "searching" /\ ~isEmpty(openSet)) => getKey(popNode(openSet)) \notin closedSet)

\* a search returned success at the pop of the goal while the open set still
\* held entries, the neighbours of the goal never relaxed from it
C30_Witness ==
  /\ Returned /\ result.success
  /\ Cardinality(closedSet) >= 3
  /\ ~isEmpty(openSet)
  /\ \A e \in OpenEntries : At(e.parent[1]) # EndCell

\* no entry has f smaller than its parent's f
HeapOrdered(H) ==
  \A i \in 2..Len(H.heap) : ~RealLess(H.heap[i].f, H.heap[i \div 2].f)

\* the lookup holds the index of every entry under its key, and nothing else
IndexExact(H) ==
  /\ DOMAIN H.nodeMap = {getKey(H.heap[i]) : i \in 1..Len(H.heap)}
  /\ \A i \in 1..Len(H.heap) : H.nodeMap[getKey(H.heap[i])] = i - 1

\* C28: after any sequence of push and pop the min-heap property holds and
\* the lookup is exact, and the entry a pop has just returned has f less than
\* or equal to the f of every entry that remains
C28_HeapProperty ==
  pc = "heap" =>
    /\ HeapOrdered(openSet)
    /\ IndexExact(openSet)
    /\ (lastOp.op = "pop" /\ lastOp.kind = "node") =>
         \A e \in OpenEntries : ~RealLess(e.f, lastOp.f)

\* the f of an entry with two children was just raised in place above the f
\* of a child, and the entry moved down
C28_Witness ==
  /\ pc = "heap"
  /\ lastOp.op = "push" /\ lastOp.kind = "higher"
  /\ Len(openSet.heap) >= 4
  /\ \E i \in 2..Len(openSet.heap) :
       /\ openSet.heap[i].f = lastOp.f
       /\ RealLess(openSet.heap[1].f, lastOp.f)
  /\ \A i \in 1..Len(openSet.heap) :
       openSet.heap[i].f = lastOp.f => 2 * i > Len(openSet.heap)

\* the step is the user event named op
EventStep(op) == lastOp'.n # lastOp.n /\ lastOp'.op = op

\* the callbacks of the path effect that have not run yet
PathTimers == {i \in 1..Len(timers) : timers[i].kind = "path"}

\* C22: after any sequence of clicks at most 2 pins are held; a click while 2
\* pins are held leaves the previous second pin followed by the clicked
\* position, and a click while fewer are held appends the clicked position
C22_AtMostTwoPinsFirstOut ==
  /\ [](pc = "canvas" => Len(pins) <= 2)
  /\ [][EventStep("click") =>
          IF Len(pins) = 2
          THEN pins' = <<pins[2], lastOp'.arg>>
          ELSE pins' = pins \o <<lastOp'.arg>>]_vars

\* a third click in a row has dropped the oldest pin: the path callbacks of
\* the second and of the third click are both still to run
C22_Witness ==
  /\ pc = "canvas"
  /\ lastOp.op = "click" /\ lastOp.n = 3
  /\ Cardinality(PathTimers) = 2
  /\ Len(pins) = 2 /\ pins[2] = lastOp.arg /\ pins[1] # pins[2]

\* C24: setTerrainVisibility changes the stored visibility setting and
\* nothing else (the terrain grid, the pins, the held path and the rest of
\* the canvas stay as they are); nothing else changes the setting; and every
\* map generation classifies its noise map with the setting stored then
C24_VisibilityOnlyStored ==
  /\ [][EventStep("setTerrainVisibility") =>
          /\ terrainVisibility' = Visibility(TRUE, lastOp'.arg)
          /\ terrainMap' = terrainMap /\ noiseMap' = noiseMap /\ config' = config
          /\ generated' = generated
          /\ pins' = pins /\ heldPath' = heldPath
          /\ isCalculating' = isCalculating /\ timers' = timers]_vars
  /\ [][terrainVisibility' # terrainVisibility => EventStep("setTerrainVisibility")]_vars
  /\ [][generated' # generated =>
          terrainMap' = classify(noiseMap', terrainVisibility)]_vars

\* water was hidden after a map with water was generated, and regenerateMap
\* has then produced a map whose lowest cell is not water
C24_Witness ==
  /\ pc = "canvas"
  /\ lastOp.op = "regenerate"
  /\ ~terrainVisibility.visible["water"]
  /\ \E y \in DOMAIN earlier.terrainMap : \E x \in DOMAIN earlier.terrainMap[y] :
       earlier.terrainMap[y][x] = "water"
  /\ terrainMap # classify(noiseMap, NoVisibility)
  /\ ~HasLabel("water")

\* two pins are held and terrain has been generated
TwoPinsOnTerrain == pc = "canvas" /\ Len(pins) = 2 /\ generated > 0

\* both pins map to cells of the current terrain grid
PinsInBounds ==
  TwoPinsOnTerrain /\ withinMap(pinCells(pins, window, config), terrainMap)

\* a pin maps outside the current terrain grid
PinOutside ==
  TwoPinsOnTerrain /\ ~withinMap(pinCells(pins, window, config), terrainMap)

\* the findPath result for the pins' cells on the current terrain grid, its
\* distance multiplied by the cell size
CurrentRoute ==
  LET cells == pinCells(pins, window, config)
  IN  scaledResult(findPath(cells[1], cells[2], cells[3], cells[4], terrainMap),
                   config.cellSize)

\* two held paths are the same result
SamePath(a, b) ==
  /\ a.held /\ b.held
  /\ a.path = b.path /\ a.success = b.success
  /\ RatioEq(a.distance, b.distance)

\* both pins map to cells, the path held is the current route and no
\* calculation is shown
RouteHeld == PinsInBounds /\ ~isCalculating /\ SamePath(heldPath, CurrentRoute)

\* the failed result is held and no calculation is shown
FailureHeld == ~isCalculating /\ heldPath = failedPath

\* C23: once two pins are held on generated terrain and both map to cells
\* of the grid, then, unless a further user event occurs, eventually
\* isCalculating is false and the held path is the findPath result for the
\* pins' cells on the current grid, scaled by the cell size; if a pin maps
\* outside the grid, eventually the failed result is held and isCalculating
\* is false
C23_PathFollowsPins ==
  \A k \in 0..MaxEvents :
    /\ (PinsInBounds /\ lastOp.n = k) ~> (lastOp.n # k \/ RouteHeld)
    /\ (PinOutside /\ lastOp.n = k) ~> (lastOp.n # k \/ FailureHeld)

\* the same, from a click made while no callback was pending; and every
\* step that is not a user event runs a pending callback
C23_FromAQuietClick ==
  /\ [][lastOp'.n = lastOp.n => Drain /\ <<timers, pendingEffect>>' # <<timers, pendingEffect>>]_vars
  /\ \A k \in 0..MaxEvents :
    /\ (PinsInBounds /\ pendingEffect /\ timers = <<>> /\ lastOp.n = k)
         ~> (lastOp.n # k \/ RouteHeld)
    /\ (PinOutside /\ pendingEffect /\ timers = <<>> /\ lastOp.n = k)
         ~> (lastOp.n # k \/ FailureHeld)

\* every callback has run, both pins map to cells of the grid regenerated
\* after a resize, the last event was a click, and the path held is a route
\* that is not the current one
StaleRouteHeld ==
  /\ PinsInBounds
  /\ generated >= 2
  /\ timers = <<>> /\ ~pendingEffect
  /\ lastOp.op = "click"
  /\ heldPath.held /\ heldPath.success
  /\ ~RouteHeld

\* C39: after any sequence of push and pop the coordinate-to-index map has
\* exactly one entry per heap element, maps the key of each element to the
\* index the element is at, and is empty when the heap is empty
C39_LookupMatchesHeap ==
  pc = "heap" =>
    /\ Cardinality(DOMAIN openSet.nodeMap) = Len(openSet.heap)
    /\ \A i \in 1..Len(openSet.heap) :
         /\ getKey(openSet.heap[i]) \in DOMAIN openSet.nodeMap
         /\ openSet.nodeMap[getKey(openSet.heap[i])] = i - 1
    /\ (Len(openSet.heap) = 0 => openSet.nodeMap = EmptyMap)

\* a pop has left three entries, the last of them with a larger f than the
\* root, each found by the lookup
C39_Witness ==
  /\ pc = "heap"
  /\ lastOp.op = "pop" /\ lastOp.kind = "node"
  /\ Len(openSet.heap) = 3
  /\ RealLess(openSet.heap[1].f, openSet.heap[3].f)
  /\ openSet.nodeMap[getKey(openSet.heap[3])] = 2


\* the closed cells a cell touches
ClosedAround(c) ==
  {d \in GridCells(terrainMap) : Adjacent(c, d) /\ CoordKey(d[1], d[2]) \in closedSet}

\* C37: during a search the open set never holds two entries with the same
\* coordinate and never holds a closed coordinate, and every pass of the
\* loop that pops a node closes its coordinate: the skip-if-closed branch is
\* never taken
C37_NoDuplicateNoClosedInOpenSet ==
  /\ [](pc = "searching" =>
          /\ \A i, j \in 1..Len(openSet.heap) :
               getKey(openSet.heap[i]) = getKey(openSet.heap[j]) => i = j
          /\ \A i \in 1..Len(openSet.heap) : getKey(openSet.heap[i]) \notin closedSet)
  /\ [][(pc = "searching" /\ ~isEmpty(openSet)) =>
          /\ getKey(popNode(openSet)) \notin closedSet
          /\ closedSet' = closedSet \cup {getKey(popNode(openSet))}]_vars

\* a search holds an open entry that touches two closed cells: it was reached
\* a second time while it was in the open set
C37_Witness ==
  /\ pc = "searching"
  /\ Len(openSet.heap) >= 2
  /\ \E e \in OpenEntries : Cardinality(ClosedAround(At(e))) >= 2


\* start and goal are passable cells that touch only diagonally, and the two
\* cells orthogonally adjacent to both are water
DiagonalAcrossWater ==
  /\ EndpointsValid
  /\ Abs(endX - startX) = 1 /\ Abs(endY - startY) = 1
  /\ Cell(terrainMap, endX, startY) = "water"
  /\ Cell(terrainMap, startX, endY) = "water"

\* C38: a diagonal step between two passable cells is taken whatever the two
\* cells orthogonally adjacent to both hold: across two water cells findPath
\* succeeds with the two-node path from start to goal, whose distance is
\* 1.414 times the cost of the goal cell
C38_DiagonalBetweenWater ==
  (Returned /\ DiagonalAcrossWater) =>
    /\ result.success
    /\ Len(result.path) = 2
    /\ At(result.path[1]) = StartCell
    /\ At(result.path[2]) = EndCell
    /\ result.distance = Real(707 * CostAt(terrainMap, EndCell), 0)

\* such a search has returned on a grid with a third passable cell, the goal
\* being sand
C38_Witness ==
  /\ Returned /\ DiagonalAcrossWater
  /\ Cell(terrainMap, endX, endY) = "sand"
  /\ \E c \in GridCells(terrainMap) :
       c # StartCell /\ c # EndCell /\ Passable(terrainMap, c)
  /\ result.success


\* no callback is pending on the canvas: no timer, no effect
Settled == pc = "canvas" /\ timers = <<>> /\ ~pendingEffect

\* C35: whenever fewer than two pins are held and no callback is pending the
\* held path is null; so once all callbacks have run after regenerateMap the
\* pins are empty and no route of the previous map is held
C35_NoPathWithoutTwoPins ==
  (Settled /\ Len(pins) < 2) => heldPath = NoPath

\* C36: whenever a path is held and no callback is pending, two pins are
\* held on generated terrain and the path is the findPath result for their
\* cells on the current terrain grid
C36_HeldPathIsCurrent ==
  (Settled /\ heldPath.held) =>
    /\ Len(pins) = 2
    /\ generated > 0
    /\ SamePath(heldPath, CurrentRoute)


\* twice the midpoint, in hundredths, of the elevation range of a category:
\* from the boundary of the category below it (0 for water) to its own
MidTwice(t) ==
  (IF RankOf(t) = 1 THEN 0 ELSE TERRAIN_BOUNDARIES[getTerrainOrder[RankOf(t) - 1]])
    + TERRAIN_BOUNDARIES[t]

\* the absolute difference between an elevation v and the midpoint of a
\* category, in units of 1 / (200 * v.d)
MidGap(v, t) == Abs(200 * v.n - MidTwice(t) * v.d)

\* the shown category nearest to an elevation by midpoint, the first in
\* enumeration order among equally near ones
NearestActive(v) ==
  CHOOSE t \in Active :
    \A u \in Active :
      \/ MidGap(v, t) < MidGap(v, u)
      \/ MidGap(v, t) = MidGap(v, u) /\ RankOf(t) <= RankOf(u)

\* filtered mode with at least two categories shown
SeveralShown == generated > 0 /\ terrainVisibility.filtered /\ Cardinality(Active) >= 2

\* C31: in filtered mode with at least two categories shown, sand shown and
\* land hidden, a cell whose natural category is Land is Sand by the beach
\* exception exactly when one of its orthogonal neighbours on the grid has
\* an elevation below the Water boundary, whether water is shown or not (a
\* diagonal neighbour does not count); otherwise it gets the category the
\* nearest-midpoint rule gives
C31_BeachByOrthogonalNeighbour ==
  (SeveralShown /\ "sand" \in Active /\ "land" \notin Active) =>
     \A c \in FieldCells(noiseMap) :
       LET v == noiseMap[c[1]][c[2]]
       IN  (~IsNaN(v) /\ FirstBoundaryAbove(v) = "land") =>
             terrainMap[c[1]][c[2]] =
               IF WaterBeside(noiseMap, c[1], c[2]) THEN "sand" ELSE NearestActive(v)

\* water is shown; a Land cell next to a Water value is Sand, while a Land
\* cell that touches the Water value only diagonally got Hills from the
\* nearest-midpoint rule
C31_Witness ==
  /\ SeveralShown /\ "sand" \in Active /\ "land" \notin Active /\ "water" \in Active
  /\ \E c, d \in FieldCells(noiseMap) :
       /\ FirstBoundaryAbove(noiseMap[c[1]][c[2]]) = "land"
       /\ FirstBoundaryAbove(noiseMap[d[1]][d[2]]) = "land"
       /\ ~IsNaN(noiseMap[c[1]][c[2]])
       /\ WaterBeside(noiseMap, c[1], c[2])
       /\ terrainMap[c[1]][c[2]] = "sand"
       /\ ~WaterBeside(noiseMap, d[1], d[2])
       /\ \E w \in FieldCells(noiseMap) :
            /\ Abs(w[1] - d[1]) = 1 /\ Abs(w[2] - d[2]) = 1
            /\ RatioLess(noiseMap[w[1]][w[2]], Hundredths(TERRAIN_BOUNDARIES.water))
       /\ terrainMap[d[1]][d[2]] = "hills"


\* the beach exception applies to cell c
BeachApplies(c) ==
  /\ "sand" \in Active
  /\ FirstBoundaryAbove(noiseMap[c[1]][c[2]]) = "land"
  /\ WaterBeside(noiseMap, c[1], c[2])

\* the cells the nearest-midpoint rule decides: the elevation is a number,
\* its natural category is hidden and the beach exception does not apply
FallThrough ==
  {c \in FieldCells(noiseMap) :
     /\ ~IsNaN(noiseMap[c[1]][c[2]])
     /\ FirstBoundaryAbove(noiseMap[c[1]][c[2]]) \notin Active
     /\ ~BeachApplies(c)}

\* C32: in filtered mode a cell whose natural category is hidden and to
\* which the beach exception does not apply gets the shown category whose
\* midpoint is nearest to its elevation, the first in enumeration order among
\* equally near ones, whatever the key order of the visibility map
C32_NearestMidpointFirstInEnumeration ==
  SeveralShown =>
    \A c \in FallThrough : terrainMap[c[1]][c[2]] = NearestActive(noiseMap[c[1]][c[2]])

\* the same for the visibility maps whose keys are in enumeration order, as
\* those of the application are
C32_InApplicationKeyOrder ==
  (SeveralShown /\ terrainVisibility.keys = VisibilityKeys) =>
    \A c \in FallThrough : terrainMap[c[1]][c[2]] = NearestActive(noiseMap[c[1]][c[2]])

\* a cell with two equally near shown categories got the later one in
\* enumeration order
LaterOfTwoNearest ==
  /\ SeveralShown
  /\ \E c \in FallThrough :
       \E t \in Active :
         /\ MidGap(noiseMap[c[1]][c[2]], t) =
              MidGap(noiseMap[c[1]][c[2]], terrainMap[c[1]][c[2]])
         /\ RankOf(t) < RankOf(terrainMap[c[1]][c[2]])


\* the grid default mode yields for the noise map: the natural category of
\* every cell
NaturalGrid ==
  [y \in DOMAIN noiseMap |->
     [x \in DOMAIN noiseMap[y] |-> FirstBoundaryAbove(noiseMap[y][x])]]

\* C33: in filtered mode with at least two categories shown every cell whose
\* natural category is shown keeps it; so with all six shown the grid is
\* exactly the grid of default mode, for every field
C33_ShownNaturalCategoryKept ==
  SeveralShown =>
    /\ \A c \in FieldCells(noiseMap) :
         FirstBoundaryAbove(noiseMap[c[1]][c[2]]) \in Active =>
           terrainMap[c[1]][c[2]] = FirstBoundaryAbove(noiseMap[c[1]][c[2]])
    /\ Active = TerrainNames => terrainMap = NaturalGrid

\* all six categories are shown and a Land cell lies next to a Water cell:
\* it stays Land
C33_Witness ==
  /\ SeveralShown /\ Active = TerrainNames
  /\ \E c \in FieldCells(noiseMap) :
       /\ ~IsNaN(noiseMap[c[1]][c[2]])
       /\ FirstBoundaryAbove(noiseMap[c[1]][c[2]]) = "land"
       /\ WaterBeside(noiseMap, c[1], c[2])
       /\ terrainMap[c[1]][c[2]] = "land"
  /\ terrainMap = NaturalGrid


\* C34: for every positive width and height, a 1x1 field and a field of equal
\* raw values included, every value of the field generateMap returns is a
\* number between 0 and 1 (the normalization never divides by zero)
C34_NormalizedValuesAreNumbers ==
  (generated > 0 /\ config.width >= 1 /\ config.height >= 1) =>
     \A c \in FieldCells(noiseMap) :
       /\ ~IsNaN(noiseMap[c[1]][c[2]])
       /\ RatioLessEq(Ratio(0, 1), noiseMap[c[1]][c[2]])
       /\ RatioLessEq(noiseMap[c[1]][c[2]], Ratio(1, 1))

\* the same for the fields that hold two different raw values
C34_WhenTwoValuesDiffer ==
  (generated > 0 /\ config.width >= 1 /\ config.height >= 1
   /\ \E c, d \in FieldCells(noiseMap) : noiseMap[c[1]][c[2]] # noiseMap[d[1]][d[2]]) =>
     \A c \in FieldCells(noiseMap) :
       /\ ~IsNaN(noiseMap[c[1]][c[2]])
       /\ RatioLessEq(Ratio(0, 1), noiseMap[c[1]][c[2]])
       /\ RatioLessEq(noiseMap[c[1]][c[2]], Ratio(1, 1))

====
